---------------------------- MODULE Spec2Model ----------------------------
(***************************************************************************)
(* A model of the swarm package (src/swarm): the handoff signal protocol   *)
(* (handoff.go), the active-agent router and the direct-mode builder       *)
(* (swarm.go) and the conditional/streaming builder (streaming.go).        *)
(*                                                                         *)
(* Go strings are modelled as sequences of characters, each character a    *)
(* one-element TLA+ string, so that prefix tests, trimming and             *)
(* concatenation are computed and not assumed.                             *)
(***************************************************************************)
EXTENDS Naturals, Sequences, FiniteSets, TLC

VARIABLES
    tool,        \* the *handoffTool built last by CreateHandoffTool, or NoTool
    toolConfig,  \* the HandoffToolConfig that tool was built from
    state,       \* the caller's SwarmState, threaded from one turn to the next
    build,       \* the build call made: the function and its arguments
    g,           \* the graph the build call worked on, or NoGraph
    err,         \* the error the build call returned, or Nil
    app,         \* the compiled graph: "none", "compiled" or "compile_error"
    run,         \* the invocation in progress on the compiled graph
    last         \* the last operation performed, with its arguments and results

vars == <<tool, toolConfig, state, build, g, err, app, run, last>>

----------------------------------------------------------------------------
(* Bounds of the model.                                                    *)

\* longest message list an agent still appends to
MaxMsgs == 2
\* most agent-node executions of one Invoke that the model follows
MaxNodeRuns == 3

----------------------------------------------------------------------------
(* Strings.                                                                *)

\* strings.HasPrefix; also: the sequence s starts with the sequence prefix
HasPrefix(s, prefix) ==
    /\ Len(s) >= Len(prefix)
    /\ SubSeq(s, 1, Len(prefix)) = prefix

\* strings.TrimPrefix: s without the leading prefix, s itself if it has none
TrimPrefix(s, prefix) ==
    IF HasPrefix(s, prefix) THEN SubSeq(s, Len(prefix) + 1, Len(s)) ELSE s

\* const handoffPrefix = "__HANDOFF__"
handoffPrefix == <<"_", "_", "H", "A", "N", "D", "O", "F", "F", "_", "_">>

\* the literal "Successfully transferred to " of the transfer message
transferText ==
    <<"S", "u", "c", "c", "e", "s", "s", "f", "u", "l", "l", "y", " ",
      "t", "r", "a", "n", "s", "f", "e", "r", "r", "e", "d", " ", "t", "o", " ">>

\* the literal "transfer_to_" of the default tool name
transferToText ==
    <<"t", "r", "a", "n", "s", "f", "e", "r", "_", "t", "o", "_">>

\* the literals "Ask agent '" and "' for help" of the default description
askAgentText == <<"A", "s", "k", " ", "a", "g", "e", "n", "t", " ", "'">>
forHelpText == <<"'", " ", "f", "o", "r", " ", "h", "e", "l", "p">>

\* unicode.IsSpace, as strings.TrimSpace uses it; "VT" stands for the
\* vertical tab, which is white space to TrimSpace but not to the class \s
IsSpace(c) == c \in {" ", "\t", "\n", "\r", "\f", "VT"}

\* the character class \s of whitespaceRe
IsReSpace(c) == c \in {" ", "\t", "\n", "\r", "\f"}

upperLetters ==
    <<"A", "B", "C", "D", "E", "F", "G", "H", "I", "J", "K", "L", "M",
      "N", "O", "P", "Q", "R", "S", "T", "U", "V", "W", "X", "Y", "Z">>
lowerLetters ==
    <<"a", "b", "c", "d", "e", "f", "g", "h", "i", "j", "k", "l", "m",
      "n", "o", "p", "q", "r", "s", "t", "u", "v", "w", "x", "y", "z">>

ToLowerChar(c) ==
    IF \E i \in DOMAIN upperLetters : upperLetters[i] = c
    THEN lowerLetters[CHOOSE i \in DOMAIN upperLetters : upperLetters[i] = c]
    ELSE c

\* strings.ToLower
ToLower(s) == [i \in DOMAIN s |-> ToLowerChar(s[i])]

RECURSIVE TrimLeft(_)
TrimLeft(s) ==
    IF s # <<>> /\ IsSpace(Head(s)) THEN TrimLeft(Tail(s)) ELSE s

RECURSIVE TrimRight(_)
TrimRight(s) ==
    IF s # <<>> /\ IsSpace(s[Len(s)])
    THEN TrimRight(SubSeq(s, 1, Len(s) - 1))
    ELSE s

\* strings.TrimSpace
TrimSpace(s) == TrimRight(TrimLeft(s))

\* whitespaceRe.ReplaceAllString(s, "_"): every maximal run of \s becomes "_"
RECURSIVE ReplaceWhitespace(_)
ReplaceWhitespace(s) ==
    IF s = <<>> THEN <<>>
    ELSE IF IsReSpace(Head(s))
         THEN IF Len(s) > 1 /\ IsReSpace(s[2])
              THEN ReplaceWhitespace(Tail(s))
              ELSE <<"_">> \o ReplaceWhitespace(Tail(s))
         ELSE <<Head(s)>> \o ReplaceWhitespace(Tail(s))

normalizeAgentName(agentName) ==
    ToLower(ReplaceWhitespace(TrimSpace(agentName)))

----------------------------------------------------------------------------
(* Names and strings the model draws its inputs from.                      *)

Alice == <<"A", "l", "i", "c", "e">>
Bob == <<"B", "o", "b">>
\* a name that is never registered as an agent
Eve == <<"E", "v", "e">>
\* the empty string
Empty == <<>>

\* names an agent of a configuration can have
AgentNames == {Alice, Bob}

\* agent names a handoff tool is built for: a plain name, the empty name,
\* a name with white space and a name that itself starts with the prefix
HandoffTargets ==
    {Bob, Empty, <<" ", "A", " ", " ", "b">>, handoffPrefix \o Bob}

\* tool results that are no handoff signal
OrdinaryResults ==
    { Empty,
      <<"o", "k">>,
      SubSeq(handoffPrefix, 1, Len(handoffPrefix) - 1),
      <<"x">> \o handoffPrefix \o Bob,
      ToLower(handoffPrefix) \o Bob,
      <<" ">> \o handoffPrefix \o Bob }

\* inputs of a tool call
ToolInputs == {Empty, <<"{", "}">>, handoffPrefix \o Alice}

----------------------------------------------------------------------------
(* Messages and the swarm state.                                           *)

\* llms.TextParts(role, text)
TextParts(role, text) == [Role |-> role, Parts |-> <<text>>]

\* SwarmState{Messages, ActiveAgent}
SwarmState(messages, activeAgent) ==
    [Messages |-> messages, ActiveAgent |-> activeAgent]

userHello == TextParts("user", <<"H", "i">>)
aiReply == TextParts("ai", <<"o", "k">>)

----------------------------------------------------------------------------
(* Values the variables hold before the operation that sets them.          *)

\* errors: nil, or the format of fmt.Errorf with its arguments
Nil == [format |-> "nil", args |-> <<>>]
Errorf(format, args) == [format |-> format, args |-> args]

NoToolConfig == [AgentName |-> Empty, Name |-> Empty, Description |-> Empty]
NoGraph == [kind |-> "nil"]
NoBuild == [op |-> "none"]
NoRun == [pc |-> "idle"]
NoOp == [op |-> "none"]

\* tool call IDs a caller passes to CreateHandoffCommand
ToolCallIDs == {Empty, <<"c", "1">>}

\* conversations a caller starts with: no active agent yet
FreshStates == {SwarmState(<<>>, Empty), SwarmState(<<userHello>>, Empty)}

----------------------------------------------------------------------------
(* The handoff signal protocol (handoff.go).                               *)

\* a *handoffTool that has not been built
NoTool == [name |-> "none"]

\* the name and description a caller passes explicitly
customName == <<"t", "_", "T">>
customDescription == <<"D", " ", "d">>

HandoffToolConfigs ==
    [AgentName : HandoffTargets,
     Name : {Empty, customName},
     Description : {Empty, customDescription}]

\* CreateHandoffTool as it would be if it normalized a name given by the
\* caller as it does the agent name
CreateHandoffToolNormalizesName(cfg) ==
    [name |-> IF cfg.Name = Empty
              THEN transferToText \o normalizeAgentName(cfg.AgentName)
              ELSE normalizeAgentName(cfg.Name),
     description |-> IF cfg.Description = Empty
                     THEN askAgentText \o cfg.AgentName \o forHelpText
                     ELSE cfg.Description,
     agentName |-> cfg.AgentName]

\* CreateHandoffTool as it would be if the default description used the
\* normalized agent name
CreateHandoffToolNormalizedDescription(cfg) ==
    [name |-> IF cfg.Name = Empty
              THEN transferToText \o normalizeAgentName(cfg.AgentName)
              ELSE cfg.Name,
     description |-> IF cfg.Description = Empty
                     THEN askAgentText \o normalizeAgentName(cfg.AgentName)
                              \o forHelpText
                     ELSE cfg.Description,
     agentName |-> cfg.AgentName]

CreateHandoffTool(cfg) ==
    [name |-> IF cfg.Name = Empty
              THEN transferToText \o normalizeAgentName(cfg.AgentName)
              ELSE cfg.Name,
     description |-> IF cfg.Description = Empty
                     THEN askAgentText \o cfg.AgentName \o forHelpText
                     ELSE cfg.Description,
     agentName |-> cfg.AgentName]

\* Call as it would be if the marker carried the normalized agent name
CallNormalized(t, input) ==
    [result |-> handoffPrefix \o normalizeAgentName(t.agentName), err |-> Nil]

\* handoffTool.Call: the marker, whatever the input
Call(t, input) == [result |-> handoffPrefix \o t.agentName, err |-> Nil]

\* ParseHandoffResult as it would be if it stripped every leading copy of
\* the prefix instead of one
RECURSIVE TrimEveryPrefix(_, _)
TrimEveryPrefix(s, prefix) ==
    IF HasPrefix(s, prefix)
    THEN TrimEveryPrefix(SubSeq(s, Len(prefix) + 1, Len(s)), prefix)
    ELSE s

ParseHandoffResultTrimsAll(result) ==
    IF HasPrefix(result, handoffPrefix)
    THEN [targetAgent |-> TrimEveryPrefix(result, handoffPrefix), isHandoff |-> TRUE]
    ELSE [targetAgent |-> Empty, isHandoff |-> FALSE]

ParseHandoffResult(result) ==
    IF HasPrefix(result, handoffPrefix)
    THEN [targetAgent |-> TrimPrefix(result, handoffPrefix), isHandoff |-> TRUE]
    ELSE [targetAgent |-> Empty, isHandoff |-> FALSE]

isHandoffResponse(response) ==
    IF HasPrefix(response, handoffPrefix)
    THEN [isHandoff |-> TRUE, agentName |-> TrimPrefix(response, handoffPrefix)]
    ELSE [isHandoff |-> FALSE, agentName |-> Empty]

\* processHandoff as it would be if it appended the message and left the
\* active agent as it was
processHandoffKeepsActive(s, toolResponse) ==
    LET r == isHandoffResponse(toolResponse) IN
    IF r.isHandoff
    THEN [state |-> SwarmState(Append(s.Messages,
                                      TextParts("tool", transferText \o r.agentName)),
                               s.ActiveAgent),
          handoff |-> TRUE]
    ELSE [state |-> s, handoff |-> FALSE]

\* processHandoff as it would be if the transfer message replaced the
\* messages of the state
processHandoffReplaces(s, toolResponse) ==
    LET r == isHandoffResponse(toolResponse) IN
    IF r.isHandoff
    THEN [state |-> SwarmState(<<TextParts("tool", transferText \o r.agentName)>>,
                               r.agentName),
          handoff |-> TRUE]
    ELSE [state |-> s, handoff |-> FALSE]

\* processHandoff as it would be if it recorded every tool response as a
\* tool message, a handoff signal or not
processHandoffRecordsResponse(s, toolResponse) ==
    LET r == isHandoffResponse(toolResponse) IN
    IF r.isHandoff
    THEN [state |-> SwarmState(Append(s.Messages,
                                      TextParts("tool", transferText \o r.agentName)),
                               r.agentName),
          handoff |-> TRUE]
    ELSE [state |-> SwarmState(Append(s.Messages, TextParts("tool", toolResponse)),
                               s.ActiveAgent),
          handoff |-> FALSE]

processHandoff(s, toolResponse) ==
    LET r == isHandoffResponse(toolResponse) IN
    IF r.isHandoff
    THEN [state |-> SwarmState(Append(s.Messages,
                                      TextParts("tool", transferText \o r.agentName)),
                               r.agentName),
          handoff |-> TRUE]
    ELSE [state |-> s, handoff |-> FALSE]

\* CreateHandoffCommand as it would be if the update held the message alone
CreateHandoffCommandJumpOnly(targetAgent, toolCallID) ==
    [Goto |-> targetAgent,
     Update |-> [messages |-> <<TextParts("tool", transferText \o targetAgent)>>]]

\* CreateHandoffCommand as it would be if it put a tool call ID that is
\* given into the message
CreateHandoffCommandTagsMessage(targetAgent, toolCallID) ==
    [Goto |-> targetAgent,
     Update |-> [messages |->
                     <<IF toolCallID # Empty
                       THEN [Role |-> "tool",
                             Parts |-> <<transferText \o targetAgent>>,
                             ToolCallID |-> toolCallID]
                       ELSE TextParts("tool", transferText \o targetAgent)>>,
                 active_agent |-> targetAgent]]

\* *graph.Command{Goto, Update}; Update is a map with the two keys
CreateHandoffCommand(targetAgent, toolCallID) ==
    [Goto |-> targetAgent,
     Update |-> [messages |-> <<TextParts("tool", transferText \o targetAgent)>>,
                 active_agent |-> targetAgent]]

----------------------------------------------------------------------------
(* The execution engine's graph, as the builders use it.  The engine is    *)
(* the imported package graph (go.mod); the model keeps what the builders  *)
(* put into a graph: nodes by name, edges in the order added, conditional  *)
(* edges by source node, and the entry point.                              *)

\* the start pseudo-node the router is attached to, "__start__"
startNode == <<"_", "_", "s", "t", "a", "r", "t", "_", "_">>
\* graph.END
END == <<"E", "N", "D">>

\* graph.NewStateGraph / graph.NewStreamingStateGraph: an empty graph.
\* offers tells whether the graph has a method AddConditionalEdges(string,
\* func(SwarmState) string, map[string]string), which addActiveAgentRouter
\* asks for with a type assertion
NewStateGraph(kind, offers) ==
    [kind |-> kind,
     offersAddConditionalEdges |-> offers,
     nodes |-> <<>>,
     edges |-> <<>>,
     conditionalEdges |-> <<>>,
     entryPoint |-> Empty]

\* g.AddNode(name, "", fn): the node function is the closure over agentCopy
AddNode(gr, name, agentCopy) ==
    [gr EXCEPT !.nodes = (name :> agentCopy) @@ @]

\* g.AddEdge(from, to)
AddEdge(gr, from, to) ==
    [gr EXCEPT !.edges = Append(@, <<from, to>>)]

\* g.AddConditionalEdge(from, condition)
AddConditionalEdge(gr, from, condition) ==
    [gr EXCEPT !.conditionalEdges = (from :> condition) @@ @]

\* stateGraph.AddConditionalEdges(from, routeFunc, pathMap)
AddConditionalEdges(gr, from, fn, pathMap) ==
    [gr EXCEPT !.conditionalEdges =
        (from :> [fn |-> fn, pathMap |-> pathMap]) @@ @]

\* g.SetEntryPoint(name)
SetEntryPoint(gr, name) == [gr EXCEPT !.entryPoint = name]

----------------------------------------------------------------------------
(* The active-agent router and the direct-mode builder (swarm.go).         *)

\* the elements of a slice
Range(seq) == {seq[i] : i \in DOMAIN seq}

\* the loop that looks name up in agentNames
found(agentNames, name) == \E i \in DOMAIN agentNames : agentNames[i] = name

\* routeFunc as it would be if it fell back to the default for a name
\* that is no agent
routeFuncFallsBack(defaultActiveAgent, s) ==
    IF s.ActiveAgent \in AgentNames THEN s.ActiveAgent ELSE defaultActiveAgent

\* routeFunc as it would be if it sent a conversation without messages to
\* the default agent whatever its active agent
routeFuncByMessages(defaultActiveAgent, s) ==
    IF s.ActiveAgent # Empty /\ s.Messages # <<>>
    THEN s.ActiveAgent
    ELSE defaultActiveAgent

\* routeFunc as it would be if it always started with the default agent
routeFuncAlwaysDefault(defaultActiveAgent, s) == defaultActiveAgent

\* routeFunc, the closure over defaultActiveAgent
routeFunc(defaultActiveAgent, s) ==
    IF s.ActiveAgent # Empty THEN s.ActiveAgent ELSE defaultActiveAgent

\* addActiveAgentRouter as it would be without the validation of the default
addActiveAgentRouterUnchecked(gr, agentNames, defaultActiveAgent) ==
    [g |-> IF gr.offersAddConditionalEdges
           THEN AddConditionalEdges(gr, startNode,
                   [name |-> "routeFunc", defaultActiveAgent |-> defaultActiveAgent],
                   [name \in Range(agentNames) |-> name])
           ELSE gr,
     err |-> Nil]

\* addActiveAgentRouter as it would be if it installed the router before
\* it validated the default
addActiveAgentRouterInstallsFirst(gr, agentNames, defaultActiveAgent) ==
    LET installed ==
            IF gr.offersAddConditionalEdges
            THEN AddConditionalEdges(gr, startNode,
                    [name |-> "routeFunc",
                     defaultActiveAgent |-> defaultActiveAgent],
                    [name \in Range(agentNames) |-> name])
            ELSE gr
    IN  IF ~found(agentNames, defaultActiveAgent)
        THEN [g |-> installed,
              err |-> Errorf("default active agent '%s' not found in routes %v",
                             <<defaultActiveAgent, agentNames>>)]
        ELSE [g |-> installed, err |-> Nil]

addActiveAgentRouter(gr, agentNames, defaultActiveAgent) ==
    IF ~found(agentNames, defaultActiveAgent)
    THEN [g |-> gr,
          err |-> Errorf("default active agent '%s' not found in routes %v",
                         <<defaultActiveAgent, agentNames>>)]
    ELSE LET pathMap == [name \in Range(agentNames) |-> name] IN
         [g |-> IF gr.offersAddConditionalEdges
                THEN AddConditionalEdges(gr, startNode,
                        [name |-> "routeFunc",
                         defaultActiveAgent |-> defaultActiveAgent],
                        pathMap)
                ELSE gr,
          err |-> Nil]

AddActiveAgentRouter(gr, agentNames, defaultActiveAgent) ==
    addActiveAgentRouter(gr, agentNames, defaultActiveAgent)

\* the loop over agent.Destinations as it would be if it gave an agent
\* without destinations an edge to END, as the streaming builder does
RECURSIVE AddDestinationEdgesWithSink(_, _, _)
AddDestinationEdgesWithSink(gr, agent, i) ==
    IF Len(agent.Destinations) = 0 THEN AddEdge(gr, agent.Name, END)
    ELSE IF i > Len(agent.Destinations) THEN gr
    ELSE AddDestinationEdgesWithSink(
            AddEdge(gr, agent.Name, agent.Destinations[i]), agent, i + 1)

\* the loop over agent.Destinations: one edge per destination
RECURSIVE AddDestinationEdges(_, _, _)
AddDestinationEdges(gr, agent, i) ==
    IF i > Len(agent.Destinations) THEN gr
    ELSE AddDestinationEdges(AddEdge(gr, agent.Name, agent.Destinations[i]),
                             agent, i + 1)

\* the loop over config.Agents of CreateSwarm as it would be if every
\* closure shared one loop variable and so saw the last agent of the list
RECURSIVE AddAgentNodesSharedVariable(_, _, _)
AddAgentNodesSharedVariable(gr, agents, i) ==
    IF i > Len(agents) THEN gr
    ELSE AddAgentNodesSharedVariable(
            AddDestinationEdges(AddNode(gr, agents[i].Name, agents[Len(agents)]),
                                agents[i], 1),
            agents, i + 1)

\* the loop over config.Agents of CreateSwarm: the node, then its edges
RECURSIVE AddAgentNodes(_, _, _)
AddAgentNodes(gr, agents, i) ==
    IF i > Len(agents) THEN gr
    ELSE AddAgentNodes(
            AddDestinationEdges(AddNode(gr, agents[i].Name, agents[i]),
                                agents[i], 1),
            agents, i + 1)

\* CreateSwarm as it would be if it also rejected a destination that is
\* no agent of the configuration
CreateSwarmChecksDestinations(cfg, offers) ==
    LET agentNames == [i \in DOMAIN cfg.Agents |-> cfg.Agents[i].Name] IN
    IF \/ Len(cfg.Agents) = 0
       \/ ~found(agentNames, cfg.DefaultActiveAgent)
       \/ \E i \in DOMAIN cfg.Agents :
              \E j \in DOMAIN cfg.Agents[i].Destinations :
                  ~found(agentNames, cfg.Agents[i].Destinations[j])
    THEN [g |-> NoGraph, err |-> Errorf("invalid configuration", <<>>)]
    ELSE [g |-> AddAgentNodes(
                    addActiveAgentRouter(NewStateGraph("StateGraph", offers),
                                         agentNames, cfg.DefaultActiveAgent).g,
                    cfg.Agents, 1),
          err |-> Nil]

\* CreateSwarm as it would be if it left the validation of the default to
\* addActiveAgentRouter
CreateSwarmRouterValidates(cfg, offers) ==
    IF Len(cfg.Agents) = 0
    THEN [g |-> NoGraph, err |-> Errorf("agents list cannot be empty", <<>>)]
    ELSE LET agentNames == [i \in DOMAIN cfg.Agents |-> cfg.Agents[i].Name]
             r == addActiveAgentRouter(NewStateGraph("StateGraph", offers),
                                       agentNames, cfg.DefaultActiveAgent)
         IN  IF r.err # Nil
             THEN [g |-> NoGraph, err |-> r.err]
             ELSE [g |-> AddAgentNodes(r.g, cfg.Agents, 1), err |-> Nil]

CreateSwarm(cfg, offers) ==
    IF Len(cfg.Agents) = 0
    THEN [g |-> NoGraph, err |-> Errorf("agents list cannot be empty", <<>>)]
    ELSE LET agentNames == [i \in DOMAIN cfg.Agents |-> cfg.Agents[i].Name] IN
         IF ~found(agentNames, cfg.DefaultActiveAgent)
         THEN [g |-> NoGraph,
               err |-> Errorf("default active agent '%s' not found in agent names %v",
                              <<cfg.DefaultActiveAgent, agentNames>>)]
         ELSE LET r == addActiveAgentRouter(NewStateGraph("StateGraph", offers),
                                            agentNames, cfg.DefaultActiveAgent)
              IN  IF r.err # Nil
                  THEN [g |-> NoGraph, err |-> r.err]
                  ELSE [g |-> AddAgentNodes(r.g, cfg.Agents, 1), err |-> Nil]

----------------------------------------------------------------------------
(* The conditional/streaming builder (streaming.go).                       *)

\* the loop that adds one node per agent
RECURSIVE AddStreamingNodes(_, _, _)
AddStreamingNodes(gr, agents, i) ==
    IF i > Len(agents) THEN gr
    ELSE AddStreamingNodes(AddNode(gr, agents[i].Name, agents[i]), agents, i + 1)

\* the loop that adds each agent's outgoing transition as it would be if it
\* gave an agent without destinations no edge at all
RECURSIVE AddStreamingEdgesNoSink(_, _, _)
AddStreamingEdgesNoSink(gr, agents, i) ==
    IF i > Len(agents) THEN gr
    ELSE AddStreamingEdgesNoSink(
            IF Len(agents[i].Destinations) > 0
            THEN AddConditionalEdge(gr, agents[i].Name,
                    [fn |-> [name |-> "destinationRouter", agentCopy |-> agents[i]]])
            ELSE gr,
            agents, i + 1)

\* the loop that adds each agent's outgoing transition
RECURSIVE AddStreamingEdges(_, _, _)
AddStreamingEdges(gr, agents, i) ==
    IF i > Len(agents) THEN gr
    ELSE AddStreamingEdges(
            IF Len(agents[i].Destinations) > 0
            THEN AddConditionalEdge(gr, agents[i].Name,
                    [fn |-> [name |-> "destinationRouter", agentCopy |-> agents[i]]])
            ELSE AddEdge(gr, agents[i].Name, END),
            agents, i + 1)

\* the conditional edge as it would be without the check of Destinations
destinationRouterAnyAgent(agentCopy, s) ==
    IF /\ s.ActiveAgent # Empty
       /\ s.ActiveAgent # agentCopy.Name
    THEN s.ActiveAgent
    ELSE END

\* the conditional edge as it would be if it let an agent that lists itself
\* be followed by itself
destinationRouterAllowsSelf(agentCopy, s) ==
    IF /\ s.ActiveAgent # Empty
       /\ found(agentCopy.Destinations, s.ActiveAgent)
    THEN s.ActiveAgent
    ELSE END

\* the conditional edge of an agent with destinations
destinationRouter(agentCopy, s) ==
    IF /\ s.ActiveAgent # Empty
       /\ s.ActiveAgent # agentCopy.Name
       /\ found(agentCopy.Destinations, s.ActiveAgent)
    THEN s.ActiveAgent
    ELSE END

\* CreateStreamingSwarm as it would be if it entered at the first agent of
\* the list instead of the default active agent
CreateStreamingSwarmEntersFirst(cfg) ==
    IF Len(cfg.Agents) = 0
    THEN [g |-> NoGraph, err |-> Errorf("agents list cannot be empty", <<>>)]
    ELSE LET agentNames == [i \in DOMAIN cfg.Agents |-> cfg.Agents[i].Name] IN
         IF ~found(agentNames, cfg.DefaultActiveAgent)
         THEN [g |-> NoGraph,
               err |-> Errorf("default active agent '%s' not found in agent names %v",
                              <<cfg.DefaultActiveAgent, agentNames>>)]
         ELSE [g |-> AddStreamingEdges(
                        AddStreamingNodes(
                            SetEntryPoint(NewStateGraph("StreamingStateGraph", FALSE),
                                          cfg.Agents[1].Name),
                            cfg.Agents, 1),
                        cfg.Agents, 1),
               err |-> Nil]

CreateStreamingSwarm(cfg) ==
    IF Len(cfg.Agents) = 0
    THEN [g |-> NoGraph, err |-> Errorf("agents list cannot be empty", <<>>)]
    ELSE LET agentNames == [i \in DOMAIN cfg.Agents |-> cfg.Agents[i].Name] IN
         IF ~found(agentNames, cfg.DefaultActiveAgent)
         THEN [g |-> NoGraph,
               err |-> Errorf("default active agent '%s' not found in agent names %v",
                              <<cfg.DefaultActiveAgent, agentNames>>)]
         ELSE [g |-> AddStreamingEdges(
                        AddStreamingNodes(
                            SetEntryPoint(NewStateGraph("StreamingStateGraph", FALSE),
                                          cfg.DefaultActiveAgent),
                            cfg.Agents, 1),
                        cfg.Agents, 1),
               err |-> Nil]

----------------------------------------------------------------------------
(* Agents at run time.  A Runnable is opaque to the package; what its      *)
(* Invoke returns is chosen by the environment at every call.              *)

\* names a handoff inside a swarm can target: the agents and a stranger
RunTargets == {Alice, Bob, Eve}

\* the state an agent returns after its handoff tool for target was called
\* and the result applied
HandedOff(s, target) ==
    processHandoff(s,
        Call(CreateHandoffTool([AgentName |-> target, Name |-> Empty,
                                Description |-> Empty]), Empty).result).state

\* the state an agent returns that has cut the conversation down to its
\* first message
Truncated(s) ==
    SwarmState(SubSeq(s.Messages, 1, IF s.Messages = <<>> THEN 0 ELSE 1),
               s.ActiveAgent)

\* what invoker.Invoke(ctx, s) can return: an error, or the state as it is,
\* truncated, with a reply appended, or with a handoff applied
AgentOutcomes(s) ==
    {[err |-> Errorf("agent failed", <<>>), result |-> s]}
    \cup {[err |-> Nil, result |-> s]}
    \cup {[err |-> Nil, result |-> Truncated(s)]}
    \cup (IF Len(s.Messages) < MaxMsgs
          THEN {[err |-> Nil,
                 result |-> SwarmState(Append(s.Messages, aiReply), s.ActiveAgent)]}
               \cup {[err |-> Nil, result |-> HandedOff(s, t)] : t \in RunTargets}
          ELSE {})

\* a result of Invoke(ctx, SwarmState) (any, error) that is no SwarmState
NotAState == [value |-> "done"]

\* result.(SwarmState)
IsSwarmState(result) == DOMAIN result = {"Messages", "ActiveAgent"}

\* nodeFunc as it would be if it reported a runnable it cannot invoke, or
\* a result it cannot use, as an error
nodeFuncRejectsUnusable(agentCopy, s, outcome) ==
    IF agentCopy.Runnable = "invoker"
    THEN IF outcome.err # Nil
         THEN [state |-> s, err |-> outcome.err, calls |-> 1]
         ELSE IF IsSwarmState(outcome.result)
         THEN [state |-> outcome.result, err |-> Nil, calls |-> 1]
         ELSE [state |-> s, err |-> Errorf("unexpected result", <<>>), calls |-> 1]
    ELSE [state |-> s, err |-> Errorf("runnable has no Invoke", <<>>), calls |-> 0]

\* nodeFunc as it would be if it called the runnable a second time after an
\* error, the second call succeeding
nodeFuncRetries(agentCopy, s, outcome) ==
    IF agentCopy.Runnable = "invoker"
    THEN IF outcome.err # Nil
         THEN [state |-> outcome.result, err |-> Nil, calls |-> 2]
         ELSE [state |-> outcome.result, err |-> Nil, calls |-> 1]
    ELSE [state |-> s, err |-> Nil, calls |-> 0]

\* nodeFunc as it would be if it appended to the state it was given the
\* messages of the state the runnable returned
nodeFuncAppends(agentCopy, s, outcome) ==
    IF agentCopy.Runnable = "invoker"
    THEN IF outcome.err # Nil
         THEN [state |-> s, err |-> outcome.err, calls |-> 1]
         ELSE [state |-> SwarmState(s.Messages \o outcome.result.Messages,
                                    outcome.result.ActiveAgent),
               err |-> Nil, calls |-> 1]
    ELSE [state |-> s, err |-> Nil, calls |-> 0]

\* nodeFunc as it would be if it put the agent's own name back when the
\* runnable left an active agent that the agent's Destinations do not list
nodeFuncResetsUnlisted(agentCopy, s, outcome) ==
    IF agentCopy.Runnable = "invoker"
    THEN IF outcome.err # Nil
         THEN [state |-> s, err |-> outcome.err, calls |-> 1]
         ELSE IF ~IsSwarmState(outcome.result)
         THEN [state |-> s, err |-> Nil, calls |-> 1]
         ELSE IF found(agentCopy.Destinations, outcome.result.ActiveAgent)
         THEN [state |-> outcome.result, err |-> Nil, calls |-> 1]
         ELSE [state |-> SwarmState(outcome.result.Messages, agentCopy.Name),
               err |-> Nil, calls |-> 1]
    ELSE [state |-> s, err |-> Nil, calls |-> 0]

\* nodeFunc of CreateSwarm and of CreateStreamingSwarm, the closure over
\* agentCopy, given what the runnable's Invoke returns; calls counts the
\* calls of invoker.Invoke the closure makes
nodeFunc(agentCopy, s, outcome) ==
    IF agentCopy.Runnable = "invoker"
    THEN IF outcome.err # Nil
         THEN [state |-> s, err |-> outcome.err, calls |-> 1]
         ELSE IF IsSwarmState(outcome.result)
         THEN [state |-> outcome.result, err |-> Nil, calls |-> 1]
         ELSE [state |-> s, err |-> Nil, calls |-> 1]
    ELSE [state |-> s, err |-> Nil, calls |-> 0]

\* what a runnable's Invoke(ctx, SwarmState) (SwarmState, error) can return:
\* what AgentOutcomes lists, or an error together with the zero SwarmState
TypedOutcomes(s) ==
    AgentOutcomes(s)
    \cup {[err |-> Errorf("agent failed", <<>>), result |-> SwarmState(<<>>, Empty)]}

\* nodeFunc of the variant of CreateStreamingSwarm that tries the typed
\* Invoke first: a "typedInvoker" has Invoke(ctx, SwarmState) (SwarmState,
\* error), and what it returns is returned as it is
nodeFuncTyped(agentCopy, s, outcome) ==
    IF agentCopy.Runnable = "typedInvoker"
    THEN [state |-> outcome.result, err |-> outcome.err, calls |-> 1]
    ELSE IF agentCopy.Runnable = "invoker"
    THEN IF outcome.err # Nil
         THEN [state |-> s, err |-> outcome.err, calls |-> 1]
         ELSE IF IsSwarmState(outcome.result)
         THEN [state |-> outcome.result, err |-> Nil, calls |-> 1]
         ELSE [state |-> s, err |-> Nil, calls |-> 1]
    ELSE [state |-> s, err |-> Nil, calls |-> 0]

----------------------------------------------------------------------------
(* The engine running a compiled graph: Compile and Invoke of the engine   *)
(* interface.  A run starts at the node the start router names, or at the  *)
(* entry point; it executes the current nodes, takes the state one of them *)
(* returned and follows each node's conditional edge or else all of its    *)
(* edges; it ends at END.                                                  *)

ErrNodeNotFound == Errorf("node not found", <<>>)
ErrNoOutgoingEdge == Errorf("no outgoing edge found for node", <<>>)

\* Compile: a graph needs a place to start
Compile(gr) ==
    IF gr.entryPoint = Empty /\ startNode \notin DOMAIN gr.conditionalEdges
    THEN "compile_error"
    ELSE "compiled"

\* the nodes a run on state s starts with
EntryNodes(gr, s) ==
    IF startNode \in DOMAIN gr.conditionalEdges
    THEN LET ce == gr.conditionalEdges[startNode]
             route == routeFunc(ce.fn.defaultActiveAgent, s)
         IN  IF route \in DOMAIN ce.pathMap
             THEN [nodes |-> {ce.pathMap[route]}, err |-> Nil]
             ELSE [nodes |-> {}, err |-> ErrNodeNotFound]
    ELSE [nodes |-> {gr.entryPoint}, err |-> Nil]

\* the nodes that follow node n once the state is s
NextNodes(gr, n, s) ==
    IF n \in DOMAIN gr.conditionalEdges
    THEN {destinationRouter(gr.conditionalEdges[n].fn.agentCopy, s)}
    ELSE {gr.edges[i][2] : i \in {j \in DOMAIN gr.edges : gr.edges[j][1] = n}}

\* the count of node executions of a run, followed up to MaxNodeRuns
Count(steps) == IF steps < MaxNodeRuns THEN steps + 1 ELSE steps

----------------------------------------------------------------------------
(* The handoff protocol as operations of a caller: a tool is built, called *)
(* and its result parsed and applied to the caller's state.                *)

\* a compiled agent: nil, or a graph whose tool node holds handoff tools
NilAgent == [kind |-> "nil"]

Charlie == <<"C", "h", "a", "r", "l", "i", "e">>

\* the handoff tool to an agent, built with the default name and description
HandoffToolTo(agentName) ==
    CreateHandoffTool([AgentName |-> agentName, Name |-> Empty,
                       Description |-> Empty])

\* the agents a caller asks about: none, an agent without handoff tools and
\* Alice's agent with handoff tools to Bob and Charlie
CompiledAgents ==
    {NilAgent,
     [kind |-> "CompiledGraph", toolNodes |-> [n \in {"tools"} |-> <<>>]],
     [kind |-> "CompiledGraph",
      toolNodes |-> [n \in {"tools"} |->
                        <<HandoffToolTo(Bob), HandoffToolTo(Charlie)>>]]}

\* GetHandoffDestinationsFromAgent: the empty list for a nil agent, and,
\* for now, the empty list for every other agent
GetHandoffDestinationsFromAgent(agent, toolNodeName) ==
    IF agent = NilAgent THEN <<>> ELSE <<>>

DoGetHandoffDestinationsFromAgent(agent, toolNodeName) ==
    /\ last' = [op |-> "GetHandoffDestinationsFromAgent", agent |-> agent,
                toolNodeName |-> toolNodeName,
                out |-> GetHandoffDestinationsFromAgent(agent, toolNodeName)]
    /\ UNCHANGED <<tool, toolConfig, state, build, g, err, app, run>>

DoCreateHandoffTool(cfg) ==
    /\ tool' = CreateHandoffTool(cfg)
    /\ toolConfig' = cfg
    /\ last' = [op |-> "CreateHandoffTool", config |-> cfg]
    /\ UNCHANGED <<state, build, g, err, app, run>>

DoCall(input) ==
    /\ tool # NoTool
    /\ last' = [op |-> "Call", tool |-> tool, input |-> input,
                out |-> Call(tool, input)]
    /\ UNCHANGED <<tool, toolConfig, state, build, g, err, app, run>>

\* the results a caller has in hand: what the tool just returned, or the
\* result of some other tool
ResultsInHand ==
    OrdinaryResults \cup (IF last.op = "Call" THEN {last.out.result} ELSE {})

DoParseHandoffResult(result) ==
    /\ last' = [op |-> "ParseHandoffResult", result |-> result,
                called |-> IF last.op = "Call" /\ result = last.out.result
                           THEN tool ELSE NoTool,
                out |-> ParseHandoffResult(result)]
    /\ UNCHANGED <<tool, toolConfig, state, build, g, err, app, run>>

DoProcessHandoff(toolResponse) ==
    /\ Len(state.Messages) < MaxMsgs
    /\ LET out == processHandoff(state, toolResponse) IN
       /\ state' = out.state
       /\ last' = [op |-> "processHandoff", state |-> state,
                   toolResponse |-> toolResponse,
                   called |-> IF last.op = "Call" /\ toolResponse = last.out.result
                              THEN tool ELSE NoTool,
                   out |-> out]
    /\ UNCHANGED <<tool, toolConfig, build, g, err, app, run>>

\* the caller builds the command for the target it has just parsed
DoCreateHandoffCommand(targetAgent, toolCallID) ==
    /\ last.op = "ParseHandoffResult"
    /\ last.out.isHandoff
    /\ targetAgent = last.out.targetAgent
    /\ last' = [op |-> "CreateHandoffCommand", targetAgent |-> targetAgent,
                toolCallID |-> toolCallID,
                out |-> CreateHandoffCommand(targetAgent, toolCallID)]
    /\ UNCHANGED <<tool, toolConfig, state, build, g, err, app, run>>

InitHandoff ==
    /\ tool = NoTool
    /\ toolConfig = NoToolConfig
    /\ state \in FreshStates
    /\ build = NoBuild
    /\ g = NoGraph
    /\ err = Nil
    /\ app = "none"
    /\ run = NoRun
    /\ last = NoOp

NextHandoff ==
    \/ \E cfg \in HandoffToolConfigs : DoCreateHandoffTool(cfg)
    \/ \E input \in ToolInputs : DoCall(input)
    \/ \E result \in ResultsInHand : DoParseHandoffResult(result)
    \/ \E toolResponse \in ResultsInHand : DoProcessHandoff(toolResponse)
    \/ \E targetAgent \in HandoffTargets, toolCallID \in ToolCallIDs :
          DoCreateHandoffCommand(targetAgent, toolCallID)
    \/ \E agent \in CompiledAgents :
          DoGetHandoffDestinationsFromAgent(agent, "tools")

SpecHandoff == InitHandoff /\ [][NextHandoff]_vars

----------------------------------------------------------------------------
(* Claims about the handoff protocol, checked under SpecHandoff.           *)

\* s starts with the reserved prefix, character by character
StartsWithMarker(s) ==
    /\ Len(s) >= Len(handoffPrefix)
    /\ \A i \in 1..Len(handoffPrefix) : s[i] = handoffPrefix[i]

\* C6: handoff round trip.  Parsing the string that Call of the tool built
\* for target T returned gives (T, true), for every T (the empty name and a
\* name that itself starts with the prefix included); parsing a string that
\* does not start with "__HANDOFF__" gives ("", false).
HandoffRoundTrip ==
    last.op = "ParseHandoffResult" =>
        /\ last.called # NoTool =>
              last.out = [targetAgent |-> toolConfig.AgentName, isHandoff |-> TRUE]
        /\ ~StartsWithMarker(last.result) =>
              last.out = [targetAgent |-> Empty, isHandoff |-> FALSE]

\* the result of a tool built for a name that contains the prefix was parsed
HandoffRoundTripWitness ==
    /\ last.op = "ParseHandoffResult"
    /\ last.called # NoTool
    /\ toolConfig.AgentName = handoffPrefix \o Bob
    /\ last.out.targetAgent = handoffPrefix \o Bob

\* C7: Call on a handoff tool built for agent name T returns exactly the
\* prefix "__HANDOFF__" followed by the raw configured T (not its normalized
\* form) and a nil error, for every input and on every call.
CallReturnsMarker ==
    last.op = "Call" =>
        last.out = [result |-> handoffPrefix \o toolConfig.AgentName, err |-> Nil]

\* a tool whose agent name differs from its normalized form was called
CallReturnsMarkerWitness ==
    /\ last.op = "Call"
    /\ normalizeAgentName(toolConfig.AgentName) # toolConfig.AgentName
    /\ last.input # Empty
    /\ last.out.result = handoffPrefix \o toolConfig.AgentName

\* C8: applying a handoff.  For every state s and every tool response that
\* is the handoff signal for target T, processHandoff returns (s', true)
\* where s'.ActiveAgent = T and s'.Messages is s.Messages followed by one
\* new message of role tool and text "Successfully transferred to T";
\* the state has no other field.
ProcessHandoffApplies ==
    (last.op = "processHandoff" /\ last.called # NoTool) =>
        LET T == toolConfig.AgentName
            before == last.state.Messages
            after == last.out.state.Messages
        IN  /\ last.out.handoff = TRUE
            /\ DOMAIN last.out.state = {"Messages", "ActiveAgent"}
            /\ last.out.state.ActiveAgent = T
            /\ Len(after) = Len(before) + 1
            /\ SubSeq(after, 1, Len(before)) = before
            /\ after[Len(after)] = [Role |-> "tool", Parts |-> <<transferText \o T>>]

\* a handoff was applied to a state that already held messages and another
\* active agent
ProcessHandoffAppliesWitness ==
    /\ last.op = "processHandoff"
    /\ last.called # NoTool
    /\ last.state.Messages # <<>>
    /\ last.state.ActiveAgent # Empty
    /\ last.state.ActiveAgent # toolConfig.AgentName
    /\ last.out.state.ActiveAgent = toolConfig.AgentName

\* C10: CreateHandoffCommand(T, id) returns one directive that bundles the
\* jump and the state delta: Goto is T, the update sets active_agent to the
\* same T and its messages are exactly one tool message "Successfully
\* transferred to T"; the update never holds one of the two without the other.
CommandBundlesJumpAndUpdate ==
    last.op = "CreateHandoffCommand" =>
        LET T == last.targetAgent
            cmd == last.out
        IN  /\ DOMAIN cmd = {"Goto", "Update"}
            /\ cmd.Goto = T
            /\ DOMAIN cmd.Update = {"messages", "active_agent"}
            /\ cmd.Update["active_agent"] = T
            /\ cmd.Update["messages"] =
                  <<[Role |-> "tool", Parts |-> <<transferText \o T>>]>>

\* a command was built for a non-empty target with a tool call ID
CommandBundlesJumpAndUpdateWitness ==
    /\ last.op = "CreateHandoffCommand"
    /\ last.targetAgent = Bob
    /\ last.toolCallID # Empty
    /\ last.out.Goto = Bob

\* C16: the name of the tool returned by CreateHandoffTool is config.Name
\* verbatim, not normalized, when config.Name is non-empty, and otherwise
\* "transfer_to_" followed by normalizeAgentName(config.AgentName); for
\* AgentName "Bob" and no Name it is "transfer_to_bob".
ToolNameDefault ==
    last.op = "CreateHandoffTool" =>
        /\ last.config.Name # Empty => tool.name = last.config.Name
        /\ last.config.Name = Empty =>
              /\ Len(tool.name) = 12 + Len(normalizeAgentName(last.config.AgentName))
              /\ SubSeq(tool.name, 1, 12) =
                    <<"t", "r", "a", "n", "s", "f", "e", "r", "_", "t", "o", "_">>
              /\ SubSeq(tool.name, 13, Len(tool.name)) =
                    normalizeAgentName(last.config.AgentName)
        /\ (last.config.Name = Empty /\ last.config.AgentName = <<"B", "o", "b">>) =>
              tool.name = <<"t", "r", "a", "n", "s", "f", "e", "r", "_", "t", "o", "_",
                            "b", "o", "b">>

\* a tool was built without a name for an agent name that normalization
\* changes
ToolNameDefaultWitness ==
    /\ last.op = "CreateHandoffTool"
    /\ last.config.Name = Empty
    /\ last.config.AgentName = <<" ", "A", " ", " ", "b">>
    /\ tool.name = transferToText \o <<"a", "_", "b">>

\* C17: the description of the tool returned by CreateHandoffTool is
\* config.Description verbatim when it is non-empty, and otherwise
\* "Ask agent '<AgentName>' for help" with the raw, un-normalized AgentName.
ToolDescriptionDefault ==
    last.op = "CreateHandoffTool" =>
        /\ last.config.Description # Empty =>
              tool.description = last.config.Description
        /\ last.config.Description = Empty =>
              tool.description =
                  <<"A", "s", "k", " ", "a", "g", "e", "n", "t", " ", "'">>
                  \o last.config.AgentName
                  \o <<"'", " ", "f", "o", "r", " ", "h", "e", "l", "p">>

\* a tool was built without a description for an agent name that
\* normalization changes
ToolDescriptionDefaultWitness ==
    /\ last.op = "CreateHandoffTool"
    /\ last.config.Description = Empty
    /\ last.config.AgentName = Bob
    /\ normalizeAgentName(Bob) # Bob
    /\ tool.description = askAgentText \o Bob \o forHelpText

\* C31: processHandoff applied to a tool response that does not start with
\* "__HANDOFF__" returns false and the state it was given: the same messages
\* in the same order, the same ActiveAgent, no transfer message appended.
ProcessHandoffIgnoresOrdinary ==
    (last.op = "processHandoff" /\ ~StartsWithMarker(last.toolResponse)) =>
        /\ last.out.handoff = FALSE
        /\ last.out.state.Messages = last.state.Messages
        /\ last.out.state.ActiveAgent = last.state.ActiveAgent
        /\ state = last.state

\* a response that holds the marker after a space was applied to a state
\* that had messages and Bob as its active agent
ProcessHandoffIgnoresOrdinaryWitness ==
    /\ last.op = "processHandoff"
    /\ last.toolResponse = <<" ">> \o handoffPrefix \o Bob
    /\ last.state.Messages # <<>>
    /\ last.state.ActiveAgent = Bob
    /\ last.out.handoff = FALSE
    /\ state = last.state

\* the agent names of the handoff tools in the tool node of an agent
ToolDestinations(agent, toolNodeName) ==
    IF toolNodeName \in DOMAIN agent.toolNodes
    THEN [i \in DOMAIN agent.toolNodes[toolNodeName] |->
             agent.toolNodes[toolNodeName][i].agentName]
    ELSE <<>>

\* C30: GetHandoffDestinationsFromAgent returns the agent names the
\* compiled agent can hand off to, ["Bob", "Charlie"] for an agent with
\* handoff tools to Bob and Charlie, and the empty list for a nil agent.
DestinationsFromAgent ==
    last.op = "GetHandoffDestinationsFromAgent" =>
        IF last.agent = NilAgent
        THEN last.out = <<>>
        ELSE last.out = ToolDestinations(last.agent, last.toolNodeName)

----------------------------------------------------------------------------
(* The life of a swarm: a caller builds a graph, compiles it and invokes   *)
(* it turn after turn on its state; between turns it may apply a handoff   *)
(* to the state itself.                                                    *)

\* the Destinations an agent is configured with
DestinationLists == {<<>>, <<Alice>>, <<Bob>>, <<Bob, Alice>>, <<Eve>>}

\* what a Runnable offers: "invoker" has Invoke(ctx, SwarmState) (any, error)
RunnableKinds == {"invoker"}

Agents == [Name : AgentNames, Runnable : RunnableKinds,
           Destinations : DestinationLists]

\* agent lists of a configuration: none, one or two agents, names may repeat
AgentLists ==
    {<<>>} \cup {<<a>> : a \in Agents} \cup {<<a, b>> : a \in Agents, b \in Agents}

\* name lists passed to AddActiveAgentRouter
NameLists ==
    {<<>>} \cup {<<a>> : a \in AgentNames}
           \cup {<<a, b>> : a \in AgentNames, b \in AgentNames}

DefaultAgents == {Alice, Bob, Eve}

\* configurations whose two agents have runnables of different kinds, so
\* that one agent's runnable can be told from the other's
MixedConfigs ==
    {[Agents |-> <<[Name |-> Alice, Runnable |-> "invoker", Destinations |-> <<Bob>>],
                   [Name |-> Bob, Runnable |-> k, Destinations |-> <<Alice>>]>>,
      DefaultActiveAgent |-> Alice] : k \in {"typedInvoker", "none"}}

SwarmConfigs == [Agents : AgentLists, DefaultActiveAgent : DefaultAgents]

DoCreateSwarm(cfg, offers) ==
    /\ build = NoBuild
    /\ LET r == CreateSwarm(cfg, offers) IN
       /\ g' = r.g
       /\ err' = r.err
    /\ build' = [op |-> "CreateSwarm", config |-> cfg]
    /\ last' = [op |-> "CreateSwarm"]
    /\ UNCHANGED <<tool, toolConfig, state, app, run>>

DoCreateStreamingSwarm(cfg) ==
    /\ build = NoBuild
    /\ LET r == CreateStreamingSwarm(cfg) IN
       /\ g' = r.g
       /\ err' = r.err
    /\ build' = [op |-> "CreateStreamingSwarm", config |-> cfg]
    /\ last' = [op |-> "CreateStreamingSwarm"]
    /\ UNCHANGED <<tool, toolConfig, state, app, run>>

\* the caller's own graph is a new, empty one
DoAddActiveAgentRouter(agentNames, defaultActiveAgent, offers) ==
    /\ build = NoBuild
    /\ LET r == AddActiveAgentRouter(NewStateGraph("StateGraph", offers),
                                     agentNames, defaultActiveAgent) IN
       /\ g' = r.g
       /\ err' = r.err
    /\ build' = [op |-> "AddActiveAgentRouter", agentNames |-> agentNames,
                 defaultActiveAgent |-> defaultActiveAgent, offers |-> offers]
    /\ last' = [op |-> "AddActiveAgentRouter"]
    /\ UNCHANGED <<tool, toolConfig, state, app, run>>

\* the names of the agents of the swarm that was built
Registered ==
    IF build.op = "AddActiveAgentRouter" THEN Range(build.agentNames)
    ELSE IF build.op = "none" THEN {}
    ELSE {build.config.Agents[i].Name : i \in DOMAIN build.config.Agents}

DoCompile ==
    /\ build # NoBuild
    /\ err = Nil
    /\ app = "none"
    /\ app' = Compile(g)
    /\ last' = [op |-> "Compile"]
    /\ UNCHANGED <<tool, toolConfig, state, build, g, err, run>>

\* the router installed in the graph is asked where the caller's state goes
DoRoute ==
    /\ g # NoGraph
    /\ startNode \in DOMAIN g.conditionalEdges
    /\ last' = [op |-> "routeFunc", state |-> state,
                out |-> routeFunc(g.conditionalEdges[startNode].fn.defaultActiveAgent,
                                  state)]
    /\ UNCHANGED <<tool, toolConfig, state, build, g, err, app, run>>

\* the update of a Command applied to a state: the messages are appended
\* and active_agent is set
ApplyUpdate(s, update) ==
    SwarmState(s.Messages \o update["messages"], update["active_agent"])

\* between two turns the caller applies a handoff signal to its state
CallerProcessHandoff(target) ==
    /\ build # NoBuild
    /\ err = Nil
    /\ run.pc # "running"
    /\ Len(state.Messages) < MaxMsgs
    /\ state' = HandedOff(state, target)
    /\ last' = [op |-> "processHandoff", state |-> state,
                out |-> HandedOff(state, target)]
    /\ UNCHANGED <<tool, toolConfig, build, g, err, app, run>>

\* between two turns the caller applies the update of a handoff command
CallerApplyCommand(target, toolCallID) ==
    /\ build # NoBuild
    /\ err = Nil
    /\ run.pc # "running"
    /\ Len(state.Messages) < MaxMsgs
    /\ state' = ApplyUpdate(state, CreateHandoffCommand(target, toolCallID).Update)
    /\ last' = [op |-> "CreateHandoffCommand"]
    /\ UNCHANGED <<tool, toolConfig, build, g, err, app, run>>

Returned(input, result, steps, error) ==
    [pc |-> "returned", input |-> input, state |-> result, current |-> {},
     steps |-> steps, err |-> error]

\* app.Invoke(ctx, state)
DoInvoke ==
    /\ app = "compiled"
    /\ run.pc # "running"
    /\ LET entry == EntryNodes(g, state) IN
       run' = IF entry.err # Nil
              THEN Returned(state, state, 0, entry.err)
              ELSE [pc |-> "running", input |-> state, state |-> state,
                    current |-> entry.nodes, steps |-> 0, err |-> Nil]
    /\ last' = [op |-> "Invoke"]
    /\ UNCHANGED <<tool, toolConfig, state, build, g, err, app>>

\* whether every runnable the run has called so far returned the messages
\* it was given with nothing but messages added at their end
AppendOnlySoFar ==
    IF last.op \in {"step", "return"} THEN last.appendOnly ELSE TRUE

\* one step of the run: the current nodes are executed on the run's state;
\* last keeps the nodes executed, the state handed to them, what their
\* runnables returned and what the node functions returned.
\* When several nodes are current, the state of one of them is kept.  A
\* node without any outgoing edge either ends its branch of the run or
\* fails the run, as the engine decides.  On success the caller takes the
\* returned state as its state of the next turn; on failure it keeps its own.
EngineStep ==
    /\ run.pc = "running"
    /\ LET active == run.current \ {END} IN
       IF active = {}
       THEN /\ run' = Returned(run.input, run.state, run.steps, Nil)
            /\ state' = run.state
            /\ last' = [op |-> "return", appendOnly |-> AppendOnlySoFar]
       ELSE IF ~(active \subseteq DOMAIN g.nodes)
       THEN /\ run' = Returned(run.input, run.state, run.steps, ErrNodeNotFound)
            /\ state' = state
            /\ last' = [op |-> "return", appendOnly |-> AppendOnlySoFar]
       ELSE \E outcomes \in [active -> AgentOutcomes(run.state)],
               winner \in active :
            LET results == [n \in active |->
                               nodeFunc(g.nodes[n], run.state, outcomes[n])]
                failed == {n \in active : results[n].err # Nil}
                merged == results[winner].state
                deadEnd == \E n \in active : NextNodes(g, n, merged) = {}
            IN  /\ last' = [op |-> "step", executed |-> active,
                             state |-> run.state, outcomes |-> outcomes,
                             results |-> results,
                             appendOnly |->
                                 /\ AppendOnlySoFar
                                 /\ \A n \in active :
                                       HasPrefix(outcomes[n].result.Messages,
                                                 run.state.Messages)]
                /\ IF failed # {}
                   THEN /\ run' = Returned(run.input, run.state, Count(run.steps),
                                           results[CHOOSE n \in failed : TRUE].err)
                        /\ state' = state
                   ELSE \/ /\ deadEnd
                           /\ run' = Returned(run.input, merged, Count(run.steps),
                                              ErrNoOutgoingEdge)
                           /\ state' = state
                        \/ /\ run' = [run EXCEPT
                                        !.state = merged,
                                        !.current = UNION {NextNodes(g, n, merged) :
                                                              n \in active},
                                        !.steps = Count(run.steps)]
                           /\ state' = state
    /\ UNCHANGED <<tool, toolConfig, build, g, err, app>>

----------------------------------------------------------------------------
(* Building: every configuration of up to two agents, valid or not, is     *)
(* handed to the builders; the graph is compiled and its router asked.     *)

\* states a caller hands to the router
CallerStates ==
    {SwarmState(m, a) : m \in {<<>>, <<userHello>>, <<userHello, aiReply>>},
                        a \in {Empty, Alice, Bob, Eve}}

InitBuild ==
    /\ tool = NoTool
    /\ toolConfig = NoToolConfig
    /\ state \in CallerStates
    /\ build = NoBuild
    /\ g = NoGraph
    /\ err = Nil
    /\ app = "none"
    /\ run = NoRun
    /\ last = NoOp

NextBuild ==
    \/ \E cfg \in SwarmConfigs \cup MixedConfigs, offers \in BOOLEAN :
          DoCreateSwarm(cfg, offers)
    \/ \E cfg \in SwarmConfigs \cup MixedConfigs : DoCreateStreamingSwarm(cfg)
    \/ \E agentNames \in NameLists, d \in DefaultAgents, offers \in BOOLEAN :
          DoAddActiveAgentRouter(agentNames, d, offers)
    \/ DoCompile
    \/ DoRoute

SpecBuild == InitBuild /\ [][NextBuild]_vars

----------------------------------------------------------------------------
(* Running: a swarm of Alice and Bob is built in either mode, compiled and *)
(* invoked turn after turn, starting from a fresh conversation.            *)

Agent(name, destinations) ==
    [Name |-> name, Runnable |-> "invoker", Destinations |-> destinations]

\* the configurations that are run: the one of TestSwarmStateManagement,
\* agents without destinations, a one-way handoff, an agent that lists
\* itself and a destination that is no agent
testConfig ==
    [Agents |-> <<Agent(Alice, <<Bob>>), Agent(Bob, <<Alice>>)>>,
     DefaultActiveAgent |-> Alice]

RunConfigs ==
    { testConfig,
      [Agents |-> <<Agent(Alice, <<>>), Agent(Bob, <<>>)>>,
       DefaultActiveAgent |-> Alice],
      [Agents |-> <<Agent(Alice, <<Bob>>), Agent(Bob, <<>>)>>,
       DefaultActiveAgent |-> Alice],
      [Agents |-> <<Agent(Alice, <<>>), Agent(Bob, <<Bob, Alice>>)>>,
       DefaultActiveAgent |-> Bob],
      [Agents |-> <<Agent(Alice, <<Eve>>)>>,
       DefaultActiveAgent |-> Alice] }

Init ==
    /\ tool = NoTool
    /\ toolConfig = NoToolConfig
    /\ state = SwarmState(<<userHello>>, Empty)
    /\ build = NoBuild
    /\ g = NoGraph
    /\ err = Nil
    /\ app = "none"
    /\ run = NoRun
    /\ last = NoOp

Next ==
    \/ \E cfg \in RunConfigs, offers \in BOOLEAN : DoCreateSwarm(cfg, offers)
    \/ \E cfg \in RunConfigs : DoCreateStreamingSwarm(cfg)
    \/ DoCompile
    \/ \E target \in RunTargets : CallerProcessHandoff(target)
    \/ \E target \in RunTargets, id \in ToolCallIDs : CallerApplyCommand(target, id)
    \/ DoInvoke
    \/ EngineStep

Spec == Init /\ [][Next]_vars

\* Direct-mode swarms invoked turn after turn by a caller that passes on
\* the state it got back: the swarm of TestSwarmStateManagement, whose
\* Destinations form a cycle, and a swarm of agents without Destinations.
LiveConfigs ==
    { testConfig,
      [Agents |-> <<Agent(Alice, <<>>), Agent(Bob, <<>>)>>,
       DefaultActiveAgent |-> Alice] }

NextLive ==
    \/ \E cfg \in LiveConfigs, offers \in BOOLEAN : DoCreateSwarm(cfg, offers)
    \/ DoCompile
    \/ DoInvoke
    \/ EngineStep

\* the engine keeps running an invocation it has begun: Invoke is a
\* blocking call, and every call of a runnable returns
SpecLive == Init /\ [][NextLive]_vars /\ WF_vars(EngineStep)

\* a step of the engine in which no runnable changes ActiveAgent
QuietStep ==
    /\ EngineStep
    /\ last'.op = "step" =>
          \A n \in last'.executed :
              last'.outcomes[n].result.ActiveAgent = last'.state.ActiveAgent

\* Streaming swarms whose agents answer, fail or cut the conversation but
\* never hand off; the caller may name an active agent between turns.
NextQuiet ==
    \/ \E cfg \in RunConfigs : DoCreateStreamingSwarm(cfg)
    \/ DoCompile
    \/ \E target \in RunTargets : CallerProcessHandoff(target)
    \/ DoInvoke
    \/ QuietStep

SpecQuiet == Init /\ [][NextQuiet]_vars

----------------------------------------------------------------------------
(* Claims about the router and the builders, checked under SpecBuild.      *)

\* the default active agent the build call was given
BuiltDefault ==
    IF build.op = "AddActiveAgentRouter"
    THEN build.defaultActiveAgent
    ELSE build.config.DefaultActiveAgent

\* C1: the router built by addActiveAgentRouter / AddActiveAgentRouter
\* returns state.ActiveAgent unchanged when it is non-empty, also when that
\* name is no registered agent, and the configured default active agent
\* when state.ActiveAgent is empty.
RouterResumesActiveAgent ==
    last.op = "routeFunc" =>
        /\ last.state.ActiveAgent # Empty => last.out = last.state.ActiveAgent
        /\ last.state.ActiveAgent = Empty => last.out = BuiltDefault

\* the router was asked about a state whose active agent is not registered
RouterResumesActiveAgentWitness ==
    /\ last.op = "routeFunc"
    /\ last.state.ActiveAgent = Eve
    /\ Eve \notin Registered
    /\ last.state.Messages # <<>>
    /\ last.out = Eve

\* C4: CreateSwarm returns an error, and no graph, if and only if the agent
\* list is empty or DefaultActiveAgent equals no agent's Name; every other
\* configuration succeeds, duplicate agent names and Destinations that name
\* no agent included.
CreateSwarmValidation ==
    build.op = "CreateSwarm" =>
        LET agents == build.config.Agents
            invalid == \/ Len(agents) = 0
                       \/ \A i \in DOMAIN agents :
                             agents[i].Name # build.config.DefaultActiveAgent
        IN  /\ err # Nil <=> invalid
            /\ g = NoGraph <=> invalid

\* CreateSwarm accepted two agents of the same name, one of them with a
\* destination that is no agent
CreateSwarmValidationWitness ==
    /\ build.op = "CreateSwarm"
    /\ err = Nil
    /\ g # NoGraph
    /\ Len(build.config.Agents) = 2
    /\ build.config.Agents[1].Name = build.config.Agents[2].Name
    /\ build.config.Agents[2].Destinations = <<Eve>>

\* C5: AddActiveAgentRouter returns an error if and only if
\* defaultActiveAgent is no element of agentNames, so always when agentNames
\* is empty; the failure is raised when the router is constructed: a router
\* that is installed and asked for a route belongs to a call that returned nil.
RouterValidation ==
    build.op = "AddActiveAgentRouter" =>
        /\ err # Nil <=> build.defaultActiveAgent \notin Range(build.agentNames)
        /\ build.agentNames = <<>> => err # Nil
        /\ startNode \in DOMAIN g.conditionalEdges => err = Nil
        /\ last.op = "routeFunc" => (err = Nil /\ last.out # Empty)

\* AddActiveAgentRouter was called with a default that is not in a
\* non-empty list, and failed
RouterValidationWitness ==
    /\ build.op = "AddActiveAgentRouter"
    /\ build.agentNames = <<Alice, Bob>>
    /\ build.defaultActiveAgent = Eve
    /\ err # Nil

\* C21: CreateStreamingSwarm accepts and rejects exactly the configurations
\* CreateSwarm accepts and rejects, and rejects them with the same error
\* message: whichever of the two built, the other one returns the same
\* error for the same configuration.
BuildersAgreeOnValidation ==
    /\ build.op = "CreateSwarm" =>
          err = CreateStreamingSwarm(build.config).err
    /\ build.op = "CreateStreamingSwarm" =>
          \A offers \in BOOLEAN : err = CreateSwarm(build.config, offers).err

\* CreateStreamingSwarm rejected two agents whose default is neither of them
BuildersAgreeOnValidationWitness ==
    /\ build.op = "CreateStreamingSwarm"
    /\ Len(build.config.Agents) = 2
    /\ build.config.DefaultActiveAgent = Eve
    /\ err = Errorf("default active agent '%s' not found in agent names %v",
                    <<Eve, <<build.config.Agents[1].Name,
                             build.config.Agents[2].Name>> >>)
    /\ err = CreateSwarm(build.config, TRUE).err

\* the graph a caller hands to AddActiveAgentRouter, as it was before the call
CallersGraph == NewStateGraph("StateGraph", build.offers)

\* C22: fail fast: when CreateSwarm, CreateStreamingSwarm or
\* AddActiveAgentRouter returns a configuration error, the builders return
\* no graph, and the caller's graph has no node, no edge, no conditional
\* edge and no entry point added.
FailFast ==
    err # Nil =>
        /\ build.op \in {"CreateSwarm", "CreateStreamingSwarm"} => g = NoGraph
        /\ build.op = "AddActiveAgentRouter" =>
              /\ g = CallersGraph
              /\ g.nodes = <<>>
              /\ g.edges = <<>>
              /\ g.conditionalEdges = <<>>
              /\ g.entryPoint = Empty
        /\ app = "none"

\* AddActiveAgentRouter failed on a graph that offers AddConditionalEdges
FailFastWitness ==
    /\ build.op = "AddActiveAgentRouter"
    /\ build.offers
    /\ build.agentNames = <<Alice, Bob>>
    /\ build.defaultActiveAgent = Eve
    /\ err # Nil
    /\ g.conditionalEdges = <<>>

\* C23: whenever CreateSwarm or AddActiveAgentRouter returns without error,
\* the graph has the router installed as the conditional edge of "__start__",
\* with a path table that maps every agent name to itself and has no other
\* key.
RouterInstalled ==
    (build.op \in {"CreateSwarm", "AddActiveAgentRouter"} /\ err = Nil) =>
        /\ startNode \in DOMAIN g.conditionalEdges
        /\ g.conditionalEdges[startNode].fn.name = "routeFunc"
        /\ g.conditionalEdges[startNode].pathMap = [name \in Registered |-> name]

\* the edges from node x to node y in the graph
EdgesBetween(x, y) == {k \in DOMAIN g.edges : g.edges[k] = <<x, y>>}

\* the entries of the configuration that name y as a destination of an
\* agent called x
DestinationEntries(x, y) ==
    UNION {{<<i, j>> : j \in {k \in DOMAIN build.config.Agents[i].Destinations :
                                 build.config.Agents[i].Destinations[k] = y}} :
           i \in {k \in DOMAIN build.config.Agents :
                     build.config.Agents[k].Name = x}}

\* C28: for every configuration CreateSwarm accepts, the graph has exactly
\* one unconditional edge from an agent's node for each entry of that
\* agent's Destinations and no other edge out of an agent node: none to END,
\* and no conditional edge but the one of "__start__".
DirectEdgesAreDestinations ==
    (build.op = "CreateSwarm" /\ err = Nil) =>
        /\ \A x \in AgentNames, y \in RunTargets \cup {END, startNode} :
              Cardinality(EdgesBetween(x, y)) = Cardinality(DestinationEntries(x, y))
        /\ \A k \in DOMAIN g.edges :
              /\ g.edges[k][1] \in Registered
              /\ g.edges[k][2] \in RunTargets
        /\ DOMAIN g.conditionalEdges \subseteq {startNode}

\* CreateSwarm built an agent with two destinations and one with none
DirectEdgesAreDestinationsWitness ==
    /\ build.op = "CreateSwarm"
    /\ err = Nil
    /\ Len(build.config.Agents) = 2
    /\ build.config.Agents[1].Name = Alice
    /\ build.config.Agents[1].Destinations = <<>>
    /\ build.config.Agents[2].Name = Bob
    /\ build.config.Agents[2].Destinations = <<Bob, Alice>>
    /\ g.edges = <<<<Bob, Bob>>, <<Bob, Alice>>>>

\* C29: the router is a pure function of the active agent: asking it leaves
\* the caller's state as it was, and every state with the same ActiveAgent
\* is routed to the same agent whatever its messages.
RouterDependsOnActiveAgentOnly ==
    last.op = "routeFunc" =>
        /\ state = last.state
        /\ \A s \in CallerStates :
              s.ActiveAgent = last.state.ActiveAgent =>
                  routeFunc(BuiltDefault, s) = last.out

\* the router was asked about a conversation without messages that has an
\* active agent other than the default
RouterDependsOnActiveAgentOnlyWitness ==
    /\ last.op = "routeFunc"
    /\ last.state.Messages = <<>>
    /\ last.state.ActiveAgent = Bob
    /\ BuiltDefault = Alice
    /\ last.out = Bob

\* C37: for a configuration with unique agent names, the node registered
\* under agent A's name is the closure over A itself: it invokes A's own
\* Runnable and no other agent's, in CreateSwarm and in CreateStreamingSwarm.
NodeCapturesOwnAgent ==
    (/\ build.op \in {"CreateSwarm", "CreateStreamingSwarm"}
     /\ err = Nil
     /\ \A i, j \in DOMAIN build.config.Agents :
           build.config.Agents[i].Name = build.config.Agents[j].Name => i = j) =>
        /\ DOMAIN g.nodes = Registered
        /\ \A i \in DOMAIN build.config.Agents :
              LET A == build.config.Agents[i] IN
              /\ g.nodes[A.Name] = A
              /\ g.nodes[A.Name].Runnable = A.Runnable

\* CreateStreamingSwarm built Alice, whose runnable returns any, and Bob,
\* whose runnable returns a SwarmState, and each node has its own
NodeCapturesOwnAgentWitness ==
    /\ build.op = "CreateStreamingSwarm"
    /\ err = Nil
    /\ Len(build.config.Agents) = 2
    /\ build.config.Agents[1].Runnable = "invoker"
    /\ build.config.Agents[2].Runnable = "typedInvoker"
    /\ g.nodes[Alice].Runnable = "invoker"
    /\ g.nodes[Bob].Runnable = "typedInvoker"

----------------------------------------------------------------------------
(* Claims about running swarms, checked under Spec.                        *)

\* the agent an invocation on state s is expected to start with
RoutedAgent(s) ==
    IF s.ActiveAgent = Empty THEN BuiltDefault ELSE s.ActiveAgent

\* C2: in a compiled swarm built by CreateSwarm, an Invoke whose input has
\* an empty ActiveAgent executes the default agent's node first, and an
\* Invoke whose input names a registered agent A executes A's node first
\* and succeeds, returning the input messages plus the messages that agent
\* appended: once that node has run no other agent node is run, and the
\* state returned is one that agent returned for the input.  Stated for
\* the swarm of TestSwarmStateManagement.
DirectInvokeRunsActiveAgent ==
    (/\ build.op = "CreateSwarm"
     /\ build.config = testConfig
     /\ run.pc # "idle"
     /\ run.input.ActiveAgent \in Registered \cup {Empty}) =>
        /\ (run.pc = "running" /\ run.steps = 0) =>
              run.current = {RoutedAgent(run.input)}
        /\ (run.pc = "running" /\ run.steps > 0) =>
              run.current \ {END} = {}
        /\ (run.pc = "returned" /\ run.err = Nil) =>
              run.state \in {o.result : o \in AgentOutcomes(run.input)}

\* C3: in a swarm built by CreateStreamingSwarm, the first agent node an
\* invocation executes is state.ActiveAgent when that is non-empty and
\* names a registered agent, and the default active agent only when the
\* field is empty.  Stated for the swarm of Alice and Bob of the package's
\* examples.
StreamingResumesActiveAgent ==
    (/\ build.op = "CreateStreamingSwarm"
     /\ build.config = testConfig
     /\ run.pc = "running"
     /\ run.steps = 0
     /\ run.input.ActiveAgent \in Registered \cup {Empty}) =>
        run.current = {RoutedAgent(run.input)}

\* C9: after any sequence of handoff applications and invocations that
\* starts from an empty ActiveAgent, state.ActiveAgent is empty or the name
\* of an agent registered in the swarm.  Stated for the swarm of Alice and
\* Bob of TestSwarmStateManagement, in either mode.
ActiveAgentRegistered ==
    (/\ build.op \in {"CreateSwarm", "CreateStreamingSwarm"}
     /\ build.config = testConfig
     /\ err = Nil) =>
        /\ state.ActiveAgent \in Registered \cup {Empty}
        /\ run.pc # "idle" => run.state.ActiveAgent \in Registered \cup {Empty}

\* C11: within one invocation of a compiled swarm, built by CreateSwarm or
\* by CreateStreamingSwarm, whenever control passes from one agent node to
\* another agent node Y, the state handed to Y already has ActiveAgent = Y.
\* Stated for the swarm of TestSwarmStateManagement.
ControlFollowsActiveAgent ==
    (/\ build.op \in {"CreateSwarm", "CreateStreamingSwarm"}
     /\ build.config = testConfig
     /\ last.op = "step"
     /\ run.pc = "running") =>
        \A Y \in run.current \ {END} : run.state.ActiveAgent = Y

\* C12: the agent node of direct mode.  When the runnable returns an
\* error, the node returns that same error and the state exactly as it
\* received it; when the runnable succeeds with a SwarmState, the node
\* returns that state, in place of the one it received.
DirectNodeReturnsRunnableResult ==
    (build.op = "CreateSwarm" /\ last.op = "step") =>
        \A n \in last.executed :
            LET returned == last.outcomes[n]
                result == last.results[n]
            IN  /\ returned.err # Nil =>
                      (result.err = returned.err /\ result.state = last.state)
                /\ returned.err = Nil =>
                      (result.err = Nil /\ result.state = returned.result)

\* two nodes of a direct-mode swarm ran on the same state: the runnable of
\* one failed, the runnable of the other returned a state that is no
\* extension of the one it was given
DirectNodeReturnsRunnableResultWitness ==
    /\ build.op = "CreateSwarm"
    /\ last.op = "step"
    /\ \E n \in last.executed, m \in last.executed :
          /\ last.outcomes[n].err # Nil
          /\ last.results[n].err = last.outcomes[n].err
          /\ last.outcomes[m].err = Nil
          /\ ~HasPrefix(last.outcomes[m].result.Messages, last.state.Messages)
          /\ last.results[m].state = last.outcomes[m].result

\* C13: no retries.  Each execution of an agent node calls the agent's
\* runnable exactly once; when the call returns an error the Invoke fails
\* with that error and no agent node is left to execute.
NoRetries ==
    last.op = "step" =>
        LET errors == {last.outcomes[n].err : n \in
                          {m \in last.executed : last.outcomes[m].err # Nil}}
        IN  /\ \A n \in last.executed : last.results[n].calls = 1
            /\ errors # {} =>
                  /\ run.pc = "returned"
                  /\ run.err \in errors
                  /\ run.current = {}

\* in a streaming swarm the second agent node of an invocation failed and
\* the invocation returned its error
NoRetriesWitness ==
    /\ build.op = "CreateStreamingSwarm"
    /\ last.op = "step"
    /\ run.steps = 2
    /\ \E n \in last.executed :
          /\ last.outcomes[n].err # Nil
          /\ last.results[n].calls = 1
          /\ run.err = last.outcomes[n].err
    /\ run.pc = "returned"

\* the Destinations of the agents named X in the configuration built
DestinationsOf(X) ==
    UNION {Range(build.config.Agents[i].Destinations) :
              i \in {j \in DOMAIN build.config.Agents :
                         build.config.Agents[j].Name = X}}

\* C14: whitelist safety in conditional mode.  In every execution of a
\* swarm built by CreateStreamingSwarm, control passes from agent node X to
\* agent node Y only if Y differs from X and Y is listed in X's
\* Destinations.
StreamingWhitelist ==
    (/\ build.op = "CreateStreamingSwarm"
     /\ last.op = "step"
     /\ run.pc = "running") =>
        \A X \in last.executed, Y \in run.current \ {END} :
            Y # X /\ Y \in DestinationsOf(X)

\* in a streaming swarm Alice, who lists Bob, handed off to Bob and Bob is
\* about to run on a state that names Bob as active
StreamingWhitelistWitness ==
    /\ build.op = "CreateStreamingSwarm"
    /\ last.op = "step"
    /\ run.pc = "running"
    /\ last.executed = {Alice}
    /\ run.current = {Bob}
    /\ Bob \in DestinationsOf(Alice)
    /\ run.state.ActiveAgent = Bob

StreamingNoDestinationsEnds ==
    (/\ build.op = "CreateStreamingSwarm"
     /\ last.op = "step") =>
        \A X \in last.executed :
            (DestinationsOf(X) = {} /\ last.results[X].err = Nil) =>
                /\ run.pc = "running"
                /\ run.current = {END}

\* in a streaming swarm Alice, who has no destinations, left Bob, a
\* registered agent, as the active agent, and the run is at END
StreamingNoDestinationsEndsWitness ==
    /\ build.op = "CreateStreamingSwarm"
    /\ last.op = "step"
    /\ last.executed = {Alice}
    /\ DestinationsOf(Alice) = {}
    /\ Bob \in Registered
    /\ last.results[Alice].state.ActiveAgent = Bob
    /\ run.state.ActiveAgent = Bob
    /\ run.current = {END}

\* a run has returned, without error, a state in which the one agent it
\* executed, X, had handed off to Y, a registered agent that X's
\* Destinations do not list, and the caller holds that state
UnlistedHandoffReturned(X, Y) ==
    /\ build.op = "CreateSwarm"
    /\ run.pc = "returned"
    /\ run.err = Nil
    /\ run.steps = 1
    /\ RoutedAgent(run.input) = X
    /\ run.input.ActiveAgent # Y
    /\ run.state.ActiveAgent = Y
    /\ Y # X
    /\ Y \in Registered
    /\ Y \notin DestinationsOf(X)
    /\ state = run.state

\* C27: direct mode does not enforce the whitelist.  If the run of agent X
\* leaves state.ActiveAgent = Y, Y a registered agent that X's Destinations
\* do not list, the run returns that state without error and the next
\* Invoke on that state starts at Y's node.
DirectModeNoWhitelist ==
    [][\A X \in AgentNames, Y \in AgentNames :
          (UnlistedHandoffReturned(X, Y) /\ last'.op = "Invoke") =>
              /\ run'.pc = "running"
              /\ run'.input = run.state
              /\ run'.steps = 0
              /\ run'.current = {Y}]_vars

\* Alice, who has no destinations, handed off to Bob, the run returned
\* that state without error and an Invoke on it starts at Bob's node
DirectModeNoWhitelistWitness ==
    /\ UnlistedHandoffReturned(Alice, Bob)
    /\ DestinationsOf(Alice) = {}
    /\ app = "compiled"
    /\ EntryNodes(g, state).nodes = {Bob}

\* C15: termination in direct mode.  For a swarm built by CreateSwarm and
\* compiled, every Invoke whose runnables each return eventually returns to
\* the caller with a state or an error, agents whose Destinations form a
\* cycle included.  Stated for the cycle Alice -> Bob -> Alice of
\* TestSwarmStateManagement; checked under SpecLive.
DirectInvokeTerminates ==
    (/\ build.op = "CreateSwarm"
     /\ build.config = testConfig
     /\ run.pc = "running") ~> (run.pc = "returned")

UnlistedNameLeft(X, name) ==
    /\ build.op = "CreateStreamingSwarm"
    /\ last.op = "step"
    /\ last.executed = {X}
    /\ last.outcomes[X].err = Nil
    /\ last.outcomes[X].result.ActiveAgent = name
    /\ name \notin DestinationsOf(X)

\* C34: in conditional mode, when agent X finishes with state.ActiveAgent
\* set to a name that is not in X's Destinations, only the jump is blocked:
\* the run is at END, its next step returns to the caller without error, and
\* the state the caller gets still has that name as ActiveAgent.
RejectedNameIsKept ==
    [][\A X \in AgentNames, name \in RunTargets :
          UnlistedNameLeft(X, name) =>
              /\ run.pc = "running"
              /\ run.current = {END}
              /\ run.state.ActiveAgent = name
              /\ run'.pc = "returned"
              /\ run'.err = Nil
              /\ run'.state.ActiveAgent = name
              /\ state' = run'.state]_vars

\* a streaming run of Alice, who lists nobody, and Bob has returned after
\* Alice's node alone, and the caller's state names Bob, whom Alice's
\* runnable had made the active agent
RejectedNameIsKeptWitness ==
    /\ build.op = "CreateStreamingSwarm"
    /\ build.config.Agents = <<Agent(Alice, <<>>), Agent(Bob, <<>>)>>
    /\ run.pc = "returned"
    /\ run.err = Nil
    /\ run.steps = 1
    /\ run.input.ActiveAgent = Empty
    /\ run.state.ActiveAgent = Bob
    /\ Bob \notin DestinationsOf(Alice)
    /\ state = run.state

----------------------------------------------------------------------------
(* Node functions: the closure each builder registers for an agent is      *)
(* called on a state with a runnable of either kind; the state it returns  *)
(* without error is the state the next node function is called on.         *)

\* the builders by the node function they register: CreateSwarm,
\* CreateStreamingSwarm and the variant of CreateStreamingSwarm that tries
\* the typed Invoke first
NodeBuilders ==
    {"CreateSwarm", "CreateStreamingSwarm", "CreateStreamingSwarmTyped"}

\* the agent whose node is called, with a runnable of each kind: "none" has
\* no method Invoke at all
NodeAgents ==
    {[Name |-> Alice, Runnable |-> k, Destinations |-> <<Bob>>] :
        k \in {"invoker", "typedInvoker", "none"}}

\* what the runnable of agent a would return if it were called on s; an
\* Invoke that returns any may return something that is no SwarmState
RunnableOutcomes(a, s) ==
    IF a.Runnable = "typedInvoker" THEN TypedOutcomes(s)
    ELSE IF a.Runnable = "invoker"
    THEN AgentOutcomes(s) \cup {[err |-> Nil, result |-> NotAState]}
    ELSE {[err |-> Nil, result |-> s]}

\* the node function builder registers for agentCopy
NodeFuncOf(builder, agentCopy, s, outcome) ==
    IF builder = "CreateStreamingSwarmTyped"
    THEN nodeFuncTyped(agentCopy, s, outcome)
    ELSE nodeFunc(agentCopy, s, outcome)

DoNodeFunc(builder, agentCopy, outcome) ==
    /\ LET out == NodeFuncOf(builder, agentCopy, state, outcome) IN
       /\ last' = [op |-> "nodeFunc", builder |-> builder, agent |-> agentCopy,
                   state |-> state, outcome |-> outcome, out |-> out]
       /\ state' = IF out.err = Nil THEN out.state ELSE state
    /\ UNCHANGED <<tool, toolConfig, build, g, err, app, run>>

NextNode ==
    \E builder \in NodeBuilders, agentCopy \in NodeAgents :
        \E outcome \in RunnableOutcomes(agentCopy, state) :
            DoNodeFunc(builder, agentCopy, outcome)

SpecNode == Init /\ [][NextNode]_vars

----------------------------------------------------------------------------
(* Claims about node functions, checked under SpecNode.                    *)

\* C26: in conditional mode, in both variants of CreateStreamingSwarm, a
\* node whose runnable returns an error returns that error together with
\* the state exactly as the node received it.
StreamingNodeErrorKeepsState ==
    (/\ last.op = "nodeFunc"
     /\ last.builder \in {"CreateStreamingSwarm", "CreateStreamingSwarmTyped"}
     /\ last.out.calls > 0
     /\ last.outcome.err # Nil) =>
        /\ last.out.err = last.outcome.err
        /\ last.out.state = last.state

\* whether the node function builder registers finds no Invoke it can call
\* on the runnable of agent a
NoInvokeOfExpectedShape(builder, a) ==
    \/ a.Runnable = "none"
    \/ a.Runnable = "typedInvoker" /\ builder # "CreateStreamingSwarmTyped"

\* C32: an agent node, of either mode, whose Runnable offers no Invoke of
\* the expected shape, or whose Invoke succeeds with a result that is no
\* SwarmState, returns the state it was given with a nil error.
UnusableRunnableIsSkipped ==
    (/\ last.op = "nodeFunc"
     /\ \/ NoInvokeOfExpectedShape(last.builder, last.agent)
        \/ /\ last.out.calls > 0
           /\ last.outcome.err = Nil
           /\ ~IsSwarmState(last.outcome.result)) =>
        /\ last.out.err = Nil
        /\ last.out.state = last.state
        /\ state = last.state

\* a streaming node got a result that is no SwarmState from its runnable,
\* on a state that already had an active agent
UnusableRunnableIsSkippedWitness ==
    /\ last.op = "nodeFunc"
    /\ last.builder = "CreateStreamingSwarm"
    /\ last.agent.Runnable = "invoker"
    /\ last.outcome = [err |-> Nil, result |-> NotAState]
    /\ last.state.ActiveAgent = Bob
    /\ last.out = [state |-> last.state, err |-> Nil, calls |-> 1]

----------------------------------------------------------------------------
(* Slices: SwarmState.Messages is a slice, a window of len elements on an  *)
(* array of cap elements; copying a SwarmState copies the window and not   *)
(* the array.  A caller makes a state whose messages have some spare       *)
(* capacity and applies processHandoff to that same state twice.           *)

\* the spare capacity a caller's message slice has
MaxSpare == 1

\* the zero value of a message, in the cells of an array beyond len
ZeroMessage == [Role |-> "", Parts |-> <<>>]

\* n cells holding the zero value
ZeroCells(n) == [i \in 1..n |-> ZeroMessage]

\* the elements a slice shows of its array; heap is the sequence of arrays
Elements(heap, slice) == SubSeq(heap[slice.arr], 1, slice.len)

\* the SwarmState value a state with a message slice stands for
ValueOf(heap, s) == SwarmState(Elements(heap, s.Messages), s.ActiveAgent)

\* append(slice, message): within capacity the message is written into the
\* array of the slice; beyond it a new array is allocated and the elements
\* copied
append(heap, slice, message) ==
    IF slice.len < slice.cap
    THEN [heap |-> [heap EXCEPT ![slice.arr][slice.len + 1] = message],
          slice |-> [slice EXCEPT !.len = @ + 1]]
    ELSE LET newcap == IF slice.cap = 0 THEN 1 ELSE 2 * slice.cap IN
         [heap |-> Append(heap, Elements(heap, slice) \o <<message>>
                                \o ZeroCells(newcap - slice.len - 1)),
          slice |-> [arr |-> Len(heap) + 1, len |-> slice.len + 1,
                     cap |-> newcap]]

\* processHandoff on a state whose Messages is a slice: state is the
\* function's own copy of the window, the array is the caller's
processHandoffOnSlice(heap, s, toolResponse) ==
    LET r == isHandoffResponse(toolResponse) IN
    IF r.isHandoff
    THEN LET a == append(heap, s.Messages,
                         TextParts("tool", transferText \o r.agentName))
         IN  [heap |-> a.heap,
              state |-> [Messages |-> a.slice, ActiveAgent |-> r.agentName],
              handoff |-> TRUE]
    ELSE [heap |-> heap, state |-> s, handoff |-> FALSE]

\* the caller makes the state: make([]MessageContent, len, len + spare)
DoMakeState(spare) ==
    /\ last.op = "none"
    /\ last' = [op |-> "make",
                heap |-> <<state.Messages \o ZeroCells(spare)>>,
                s |-> [Messages |-> [arr |-> 1, len |-> Len(state.Messages),
                                     cap |-> Len(state.Messages) + spare],
                       ActiveAgent |-> state.ActiveAgent],
                results |-> <<>>]
    /\ UNCHANGED <<tool, toolConfig, state, build, g, err, app, run>>

\* the caller applies a handoff to target to the state it made and keeps
\* the result next to the results it already has
DoProcessHandoffOnSlice(target) ==
    /\ last.op \in {"make", "processHandoff on slice"}
    /\ Len(last.results) < 2
    /\ LET out == processHandoffOnSlice(last.heap, last.s, handoffPrefix \o target)
       IN  last' = [op |-> "processHandoff on slice",
                    heap |-> out.heap,
                    s |-> last.s,
                    results |-> Append(last.results,
                                       [target |-> target, state |-> out.state,
                                        handoff |-> out.handoff])]
    /\ UNCHANGED <<tool, toolConfig, state, build, g, err, app, run>>

NextSlices ==
    \/ \E spare \in 0..MaxSpare : DoMakeState(spare)
    \/ \E target \in RunTargets : DoProcessHandoffOnSlice(target)

SpecSlices == InitBuild /\ [][NextSlices]_vars

----------------------------------------------------------------------------
(* Claims about slices, checked under SpecSlices.                          *)

\* C35: processHandoff does not mutate its input or a result it returned
\* earlier: after handoffs to T1 and then T2 were applied to the same state
\* s, whatever spare capacity the messages of s have, s still has its
\* messages and ActiveAgent, and each result ends with the transfer message
\* for its own target.
ProcessHandoffLeavesResultsAlone ==
    last.op = "processHandoff on slice" =>
        /\ ValueOf(last.heap, last.s) = state
        /\ \A i \in DOMAIN last.results :
              LET v == ValueOf(last.heap, last.results[i].state) IN
              /\ last.results[i].handoff
              /\ v.ActiveAgent = last.results[i].target
              /\ v.Messages = Append(state.Messages,
                     TextParts("tool", transferText \o last.results[i].target))

----------------------------------------------------------------------------
(* Concurrent invocations: two goroutines call Invoke on one compiled      *)
(* swarm, each with its own state.  The two share the graph and what its   *)
(* closures captured: the router's defaultActiveAgent and each node's      *)
(* agentCopy.  A runnable here is a function of the state it is given.     *)

\* how an agent's runnable behaves
Behaviours == {"same", "reply", "handoff", "fail"}

\* what the runnable of agent name returns on s when it behaves as kind
Behave(kind, name, s) ==
    IF kind = "fail" THEN [err |-> Errorf("agent failed", <<>>), result |-> s]
    ELSE IF kind = "reply"
    THEN [err |-> Nil,
          result |-> SwarmState(Append(s.Messages, aiReply), s.ActiveAgent)]
    ELSE IF kind = "handoff"
    THEN [err |-> Nil, result |-> HandedOff(s, IF name = Alice THEN Bob ELSE Alice)]
    ELSE [err |-> Nil, result |-> s]

\* the behaviour of each agent's runnable during one invocation, and what
\* the engine does at a node without outgoing edge
Scripts ==
    { [agents |-> (Alice :> "handoff" @@ Bob :> "reply"), deadEndFails |-> FALSE],
      [agents |-> (Alice :> "reply" @@ Bob :> "handoff"), deadEndFails |-> TRUE],
      [agents |-> (Alice :> "fail" @@ Bob :> "same"), deadEndFails |-> FALSE] }

\* the states the two callers invoke the swarm on
ConcurrentInputs == {SwarmState(<<userHello>>, a) : a \in {Empty, Bob}}

\* the swarms invoked concurrently
ConcurrentConfigs ==
    { testConfig,
      [Agents |-> <<Agent(Alice, <<>>), Agent(Bob, <<>>)>>,
       DefaultActiveAgent |-> Alice] }

\* what routeFunc leaves in the variable it captured, as it would be if
\* the closure kept the active agent it last saw as its default
routeFuncCapturedRemembers(defaultActiveAgent, s) ==
    IF s.ActiveAgent # Empty THEN s.ActiveAgent ELSE defaultActiveAgent

\* what routeFunc leaves in defaultActiveAgent, the variable it captured:
\* the closure reads it and never assigns it
routeFuncCaptured(defaultActiveAgent, s) == defaultActiveAgent

\* what nodeFunc leaves in agentCopy, the variable it captured: the closure
\* reads agentCopy.Runnable and never assigns
nodeFuncCaptured(agentCopy, s) == agentCopy

\* an invocation that has been called and has not begun
Called(input, script) ==
    [pc |-> "called", input |-> input, script |-> script, state |-> input,
     current |-> {}, steps |-> 0, err |-> Nil]

\* the beginning of an invocation on graph gr: the entry nodes are found
InvokeBegin(gr, r) ==
    LET entry == EntryNodes(gr, r.input) IN
    IF entry.err # Nil
    THEN [r EXCEPT !.pc = "returned", !.err = entry.err]
    ELSE [r EXCEPT !.pc = "running", !.current = entry.nodes]

\* the graph after the beginning of an invocation on input
GraphAfterBegin(gr, input) ==
    IF startNode \in DOMAIN gr.conditionalEdges
    THEN [gr EXCEPT !.conditionalEdges[startNode].fn.defaultActiveAgent =
                       routeFuncCaptured(@, input)]
    ELSE gr

\* the node an invocation executes next, if any
NodeToRun(gr, r) ==
    LET active == r.current \ {END} IN
    IF active # {} /\ active \subseteq DOMAIN gr.nodes
    THEN active ELSE {}

\* one step of an invocation on graph gr: the current node is executed and
\* the node's edges are followed; an invocation is followed up to
\* MaxNodeRuns node executions
InvokeStep(gr, r) ==
    LET active == r.current \ {END} IN
    IF active = {}
    THEN [r EXCEPT !.pc = "returned", !.current = {}]
    ELSE IF ~(active \subseteq DOMAIN gr.nodes)
    THEN [r EXCEPT !.pc = "returned", !.current = {}, !.err = ErrNodeNotFound]
    ELSE LET n == CHOOSE x \in active : TRUE
             result == nodeFunc(gr.nodes[n], r.state,
                                Behave(r.script.agents[n], n, r.state))
             next == NextNodes(gr, n, result.state)
         IN  IF result.err # Nil
             THEN [r EXCEPT !.pc = "returned", !.current = {},
                            !.steps = @ + 1, !.err = result.err]
             ELSE IF next = {} /\ r.script.deadEndFails
             THEN [r EXCEPT !.pc = "returned", !.current = {},
                            !.state = result.state, !.steps = @ + 1,
                            !.err = ErrNoOutgoingEdge]
             ELSE [r EXCEPT !.pc = IF r.steps + 1 >= MaxNodeRuns
                                   THEN "cut" ELSE "running",
                            !.state = result.state,
                            !.current = next,
                            !.steps = @ + 1]

\* the graph after that step
GraphAfterStep(gr, r) ==
    IF NodeToRun(gr, r) = {} THEN gr
    ELSE LET n == CHOOSE x \in NodeToRun(gr, r) : TRUE IN
         [gr EXCEPT !.nodes[n] = nodeFuncCaptured(@, r.state)]

\* an invocation carried on alone, on its own graph, until it returns
RECURSIVE RunAlone(_, _)
RunAlone(gr, r) ==
    IF r.pc = "called"
    THEN RunAlone(GraphAfterBegin(gr, r.input), InvokeBegin(gr, r))
    ELSE IF r.pc = "running"
    THEN RunAlone(GraphAfterStep(gr, r), InvokeStep(gr, r))
    ELSE r

\* two goroutines call app.Invoke, each with its own state
DoInvokeConcurrently(input1, script1, input2, script2) ==
    /\ app = "compiled"
    /\ run = NoRun
    /\ run' = [pc |-> "concurrent",
               inv |-> <<Called(input1, script1), Called(input2, script2)>>]
    /\ last' = [op |-> "Invoke concurrently"]
    /\ UNCHANGED <<tool, toolConfig, state, build, g, err, app>>

\* goroutine i takes the next step of its invocation
DoConcurrentStep(i) ==
    /\ run.pc = "concurrent"
    /\ run.inv[i].pc \in {"called", "running"}
    /\ LET r == run.inv[i] IN
       IF r.pc = "called"
       THEN /\ run' = [run EXCEPT !.inv[i] = InvokeBegin(g, r)]
            /\ g' = GraphAfterBegin(g, r.input)
       ELSE /\ run' = [run EXCEPT !.inv[i] = InvokeStep(g, r)]
            /\ g' = GraphAfterStep(g, r)
    /\ last' = [op |-> "concurrent step", goroutine |-> i]
    /\ UNCHANGED <<tool, toolConfig, state, build, err, app>>

NextConcurrent ==
    \/ \E cfg \in ConcurrentConfigs : DoCreateSwarm(cfg, TRUE)
    \/ \E cfg \in ConcurrentConfigs : DoCreateStreamingSwarm(cfg)
    \/ DoCompile
    \/ \E input1 \in ConcurrentInputs, script1 \in Scripts,
          input2 \in ConcurrentInputs, script2 \in Scripts :
          DoInvokeConcurrently(input1, script1, input2, script2)
    \/ \E i \in {1, 2} : DoConcurrentStep(i)

SpecConcurrent == Init /\ [][NextConcurrent]_vars

----------------------------------------------------------------------------
(* Claims about concurrent invocations, checked under SpecConcurrent.      *)

\* the graph as the builder returned it
BuiltGraph ==
    IF build.op = "CreateSwarm"
    THEN CreateSwarm(build.config, TRUE).g
    ELSE CreateStreamingSwarm(build.config).g

----------------------------------------------------------------------------
(* Name normalization: normalizeAgentName is applied to names up to        *)
(* MaxNameLen characters long and to the names of TestNormalizeAgentName,  *)
(* then to its own result and to variants of the name it was given.        *)

\* longest agent name that is enumerated
MaxNameLen == 4

\* the characters of enumerated names: an upper-case and a lower-case
\* letter, the space and the vertical tab
NameChars == {"A", "b", " ", "VT"}

BoundedNames == UNION {[1..n -> NameChars] : n \in 0..MaxNameLen}

\* the inputs of TestNormalizeAgentName
simpleAgentName == <<"S", "i", "m", "p", "l", "e", "A", "g", "e", "n", "t">>
agentWithSpacesName ==
    <<"A", "g", "e", "n", "t", " ", "W", "i", "t", "h", " ", "S",
      "p", "a", "c", "e", "s">>
trimMeName == <<" ", " ", "T", "r", "i", "m", " ", "M", "e", " ", " ">>
multipleSpacesName ==
    <<"M", "u", "l", "t", "i", "p", "l", "e", " ", " ", " ", "S",
      "p", "a", "c", "e", "s">>

TestNames == {simpleAgentName, agentWithSpacesName, trimMeName, multipleSpacesName}

NameInputs == BoundedNames \cup TestNames

\* strings.ToUpper, on the letters
ToUpperChar(c) ==
    IF \E i \in DOMAIN lowerLetters : lowerLetters[i] = c
    THEN upperLetters[CHOOSE i \in DOMAIN lowerLetters : lowerLetters[i] = c]
    ELSE c

ToUpper(s) == [i \in DOMAIN s |-> ToUpperChar(s[i])]

\* s with every white-space character written twice
RECURSIVE Stretch(_)
Stretch(s) ==
    IF s = <<>> THEN <<>>
    ELSE IF IsSpace(Head(s))
         THEN <<Head(s), Head(s)>> \o Stretch(Tail(s))
         ELSE <<Head(s)>> \o Stretch(Tail(s))

\* names that differ from x only in letter case, in leading or trailing
\* white space, or in the length of their white-space runs
Variants(x) ==
    {ToLower(x), ToUpper(x), Stretch(x)}
    \cup {<<c>> \o x : c \in {d \in NameChars : IsSpace(d)}}
    \cup {x \o <<c>> : c \in {d \in NameChars : IsSpace(d)}}

\* The caller normalizes a name of its own first.
\* last.how tells where the name came from: "input", a name of the caller;
\* "output", the result of the call before; "variant", a variant of the
\* name of the call before.  last.before and last.beforeOut are the name
\* and the result of the call before.
DoNormalize(agentName) ==
    /\ last.op = "none"
    /\ last' = [op |-> "normalizeAgentName", agentName |-> agentName,
                out |-> normalizeAgentName(agentName), how |-> "input",
                before |-> Empty, beforeOut |-> Empty]
    /\ UNCHANGED <<tool, toolConfig, state, build, g, err, app, run>>

DoNormalizeOutput ==
    /\ last.op = "normalizeAgentName"
    /\ last' = [op |-> "normalizeAgentName", agentName |-> last.out,
                out |-> normalizeAgentName(last.out), how |-> "output",
                before |-> last.agentName, beforeOut |-> last.out]
    /\ UNCHANGED <<tool, toolConfig, state, build, g, err, app, run>>

\* the variants of the name the caller has just normalized
VariantsInHand ==
    IF last.op = "normalizeAgentName" /\ last.how = "input"
    THEN Variants(last.agentName)
    ELSE {}

DoNormalizeVariant(agentName) ==
    /\ agentName \in VariantsInHand
    /\ last' = [op |-> "normalizeAgentName", agentName |-> agentName,
                out |-> normalizeAgentName(agentName), how |-> "variant",
                before |-> last.agentName, beforeOut |-> last.out]
    /\ UNCHANGED <<tool, toolConfig, state, build, g, err, app, run>>

NextNormalize ==
    \/ \E agentName \in NameInputs : DoNormalize(agentName)
    \/ DoNormalizeOutput
    \/ \E agentName \in VariantsInHand : DoNormalizeVariant(agentName)

SpecNormalize == Init /\ [][NextNormalize]_vars

----------------------------------------------------------------------------
(* Claims about name normalization, checked under SpecNormalize.           *)

\* the name with its white space removed at both ends, every run of white
\* space inside it replaced by one underscore, and in lower case: the
\* words of the name in lower case, joined by underscores.  emitted tells
\* that a character of a word has been passed, pending that white space
\* has been passed since.
RECURSIVE JoinedWords(_, _, _)
JoinedWords(x, emitted, pending) ==
    IF x = <<>> THEN <<>>
    ELSE IF IsSpace(Head(x))
         THEN JoinedWords(Tail(x), emitted, emitted)
         ELSE (IF pending THEN <<"_">> ELSE <<>>)
              \o <<ToLowerChar(Head(x))>>
              \o JoinedWords(Tail(x), TRUE, FALSE)

\* C18: normalizeAgentName removes leading and trailing white space,
\* replaces every maximal run of internal white space by a single
\* underscore and lowercases the result, for every input; "SimpleAgent"
\* gives "simpleagent", "Agent With Spaces" "agent_with_spaces",
\* "  Trim Me  " "trim_me" and "Multiple   Spaces" "multiple_spaces".
NormalizeAsSpecified ==
    last.op = "normalizeAgentName" =>
        /\ last.out = JoinedWords(last.agentName, FALSE, FALSE)
        /\ last.agentName = simpleAgentName =>
              last.out = <<"s", "i", "m", "p", "l", "e", "a", "g", "e", "n", "t">>
        /\ last.agentName = agentWithSpacesName =>
              last.out = <<"a", "g", "e", "n", "t", "_", "w", "i", "t", "h", "_", "s",
                    "p", "a", "c", "e", "s">>
        /\ last.agentName = trimMeName =>
              last.out = <<"t", "r", "i", "m", "_", "m", "e">>
        /\ last.agentName = multipleSpacesName =>
              last.out = <<"m", "u", "l", "t", "i", "p", "l", "e", "_", "s", "p", "a",
                    "c", "e", "s">>

\* C19: name normalization is idempotent and deterministic: normalizing a
\* normalized name gives that name again, and two names that differ only
\* in letter case, in leading or trailing white space or in the length of
\* their internal white-space runs normalize to the same result.
NormalizeIdempotentDeterministic ==
    last.op = "normalizeAgentName" =>
        /\ last.how = "output" => last.out = last.agentName
        /\ last.how = "variant" => last.out = last.beforeOut

=============================================================================
